---------------------------- MODULE Spec2Model ----------------------------
(***************************************************************************)
(* KRPC wire codec of the mainline DHT client: the Bencode decoder of      *)
(* src/src/messages/bencode.rs and KRPCMessage::to_bencode / from_bencode  *)
(* of src/src/messages/mod.rs.                                             *)
(*                                                                         *)
(* A byte is a number in 0..255 and a buffer is a sequence of bytes.  A    *)
(* Rust slice `&buffer[p..]` of the datagram is the pair (buf, p): the     *)
(* whole datagram and the 1-based index of the slice's first byte, so      *)
(* p = Len(buf) + 1 is the empty slice.  A panic (a failed assert!, an     *)
(* out-of-range split_at) is the outcome "panic", distinct from Err.       *)
(***************************************************************************)
EXTENDS Integers, Sequences, FiniteSets, TLC

\* ------------------------------------------------------------------ bytes

\* The concatenation of a sequence of byte sequences.
RECURSIVE Concat(_)
Concat(ss) == IF ss = <<>> THEN <<>> ELSE Head(ss) \o Concat(Tail(ss))

\* n copies of byte b.
Rep(b, n) == [i \in 1..n |-> b]

IsDigit(b) == b >= 48 /\ b <= 57

\* format!("{}", n) of a non-negative number: its decimal digits.
RECURSIVE DecStr(_)
DecStr(n) == IF n < 10 THEN <<48 + n>> ELSE DecStr(n \div 10) \o <<48 + (n % 10)>>

\* format!("{}", n) of a signed number.
IntStr(n) == IF n < 0 THEN <<45>> \o DecStr(0 - n) ELSE DecStr(n)

\* The value of a sequence of decimal digits (at most 9 of them here).
RECURSIVE DigitsVal(_)
DigitsVal(ds) ==
    IF ds = <<>> THEN 0
    ELSE 10 * DigitsVal(SubSeq(ds, 1, Len(ds) - 1)) + (ds[Len(ds)] - 48)

\* ds without its leading zeros (one digit is always kept).
RECURSIVE StripZeros(_)
StripZeros(ds) == IF Len(ds) > 1 /\ ds[1] = 48 THEN StripZeros(Tail(ds)) ELSE ds

\* Lexicographic byte order on sequences: a < b.
RECURSIVE BytesLess(_, _)
BytesLess(a, b) ==
    IF b = <<>> THEN FALSE
    ELSE IF a = <<>> THEN TRUE
    ELSE IF a[1] # b[1] THEN a[1] < b[1]
    ELSE BytesLess(Tail(a), Tail(b))

\* 2^64 - 1 and 2^63 - 1 and 2^63 in decimal digits.
UsizeMaxDigits == <<49,56,52,52,54,55,52,52,48,55,51,55,48,57,53,53,49,54,49,53>>
I64MaxDigits == <<57,50,50,51,51,55,50,48,51,54,56,53,52,55,55,53,56,48,55>>
I64MinDigits == <<57,50,50,51,51,55,50,48,51,54,56,53,52,55,55,53,56,48,56>>

\* Whether the number written by the stripped digits ds exceeds the one written by max.
DigitsExceed(ds, max) ==
    \/ Len(ds) > Len(max)
    \/ Len(ds) = Len(max) /\ BytesLess(max, ds)

\* str::parse::<usize>() on the bytes ds (64-bit usize): an optional '+', then one
\* or more ASCII digits, no overflow.  -1 is Err.  A value of more than 9 digits is
\* kept as 10^9, a length larger than any buffer (the model's numbers are 32-bit and
\* only the comparison of the length with a buffer's is ever used).
ParseUsize(ds) ==
    LET body == IF ds # <<>> /\ ds[1] = 43 THEN Tail(ds) ELSE ds
        sig  == StripZeros(body)
    IN  IF body = <<>> \/ \E i \in 1..Len(body) : ~IsDigit(body[i]) THEN -1
        ELSE IF DigitsExceed(sig, UsizeMaxDigits) THEN -1
        ELSE IF Len(sig) > 9 THEN 1000000000
        ELSE DigitsVal(sig)

\* str::parse::<i64>() on the bytes ds: an optional '+' or '-', then one or more
\* ASCII digits, no overflow.  Values of more than 9 significant digits are outside
\* the model's numbers and none of its inputs holds one in range: they are taken as
\* out of range like those beyond 2^63.
ParseI64(ds) ==
    LET neg  == ds # <<>> /\ ds[1] = 45
        body == IF ds # <<>> /\ (ds[1] = 43 \/ ds[1] = 45) THEN Tail(ds) ELSE ds
        sig  == StripZeros(body)
    IN  IF body = <<>> \/ \E i \in 1..Len(body) : ~IsDigit(body[i])
            THEN [ok |-> FALSE, n |-> 0]
        ELSE IF DigitsExceed(sig, IF neg THEN I64MinDigits ELSE I64MaxDigits) \/ Len(sig) > 9
            THEN [ok |-> FALSE, n |-> 0]
        ELSE [ok |-> TRUE, n |-> IF neg THEN 0 - DigitsVal(sig) ELSE DigitsVal(sig)]

\* Number of continuation bytes (0x80..0xBF) wanted after lead byte b at index i of
\* s, with the range std::str::from_utf8 allows for the first of them; 9 = invalid lead.
Utf8Need(b) ==
    IF b < 128 THEN 0
    ELSE IF b >= 194 /\ b <= 223 THEN 1
    ELSE IF b >= 224 /\ b <= 239 THEN 2
    ELSE IF b >= 240 /\ b <= 244 THEN 3
    ELSE 9

Utf8SecondOk(lead, b) ==
    CASE lead = 224 -> b >= 160 /\ b <= 191
      [] lead = 237 -> b >= 128 /\ b <= 159
      [] lead = 240 -> b >= 144 /\ b <= 191
      [] lead = 244 -> b >= 128 /\ b <= 143
      [] OTHER -> b >= 128 /\ b <= 191

\* std::str::from_utf8(s).is_ok(), reading s from index i.
RECURSIVE IsUtf8From(_, _)
IsUtf8From(s, i) ==
    IF i > Len(s) THEN TRUE
    ELSE LET n == Utf8Need(s[i]) IN
         IF n = 9 \/ i + n > Len(s) THEN FALSE
         ELSE IF n >= 1 /\ ~Utf8SecondOk(s[i], s[i + 1]) THEN FALSE
         ELSE IF \E j \in (i + 2)..(i + n) : ~(s[j] >= 128 /\ s[j] <= 191) THEN FALSE
         ELSE IsUtf8From(s, i + n + 1)

IsUtf8(s) == IsUtf8From(s, 1)

\* -------------------------------------------------- bencode.rs: the decoder

\* The results of the eat_* functions and of the iterators' next().
Err(e) == [st |-> "err", err |-> e]
Panic == [st |-> "panic"]

\* Bencode::len of the slice (buf, p).
BufLen(buf, p) == Len(buf) + 1 - p

\* Bencode::peek: the first byte of the slice, -1 for None.
peek(buf, p) == IF p > Len(buf) THEN -1 ELSE buf[p]

\* The index of the first byte c at or after p, 0 when there is none: where
\* splitn(2, |x| *x == c) cuts the slice.
RECURSIVE FindByte(_, _, _)
FindByte(buf, p, c) ==
    IF p > Len(buf) THEN 0
    ELSE IF buf[p] = c THEN p
    ELSE FindByte(buf, p + 1, c)

\* Bencode::eat_str: Ok gives the string as the bytes from..to of buf and the rest
\* of the slice as index rest.
eat_str(buf, p) ==
    LET c == FindByte(buf, p, 58) IN
    IF c = 0 THEN Err("UnexpectedEOF")
    ELSE LET string_len == ParseUsize(SubSeq(buf, p, c - 1)) IN
         IF string_len = -1 THEN Err("InvalidStringLength")
         ELSE IF string_len > Len(buf) - c THEN Panic
         ELSE [st |-> "ok", from |-> c + 1, to |-> c + string_len,
               rest |-> c + string_len + 1]

\* Bencode::eat_integer: Ok gives the digits as the bytes from..to and the rest.
eat_integer(buf, p) ==
    IF BufLen(buf, p) < 3 \/ peek(buf, p) # 105 THEN Panic
    ELSE LET e == FindByte(buf, p, 101) IN
         IF e = 0 THEN Err("UnexpectedEOF")
         ELSE [st |-> "ok", from |-> p + 1, to |-> e - 1, rest |-> e + 1]

\* A Value: String is the bytes from..to; Integer is n; Dict and List are the
\* cursor (the index at) of an iterator over the slice behind the 'd' or 'l'.
ValString(from, to) == [tag |-> "String", from |-> from, to |-> to]
ValInteger(n) == [tag |-> "Integer", n |-> n]
ValDict(at) == [tag |-> "Dict", at |-> at]
ValList(at) == [tag |-> "List", at |-> at]

\* eat_any, eat_dict, eat_list and the iterators call one another.  Each is written
\* below with a first parameter rec, the table of those calls: rec[Call(f, p)] is
\* the result of function f on the slice (buf, p).  Bencode(buf) ties the knot.
Call(f, p) == [f |-> f, p |-> p]

\* <Dict as Iterator>::next with the cursor at p: "none" leaves the cursor, "some"
\* gives the key (bytes kfrom..kto), the value and the new cursor.
DictNext(rec, buf, p) ==
    IF peek(buf, p) = -1 \/ peek(buf, p) = 101 THEN [st |-> "none"]
    ELSE LET k == eat_str(buf, p) IN
         IF k.st = "panic" THEN Panic
         ELSE IF k.st = "err" THEN [st |-> "none"]
         ELSE LET v == rec[Call("eat_any", k.rest)] IN
              IF v.st = "panic" THEN Panic
              ELSE IF v.st = "err" THEN [st |-> "none"]
              ELSE [st |-> "some", kfrom |-> k.from, kto |-> k.to,
                    value |-> v.value, cursor |-> v.rest]

\* <List as Iterator>::next with the cursor at p.
ListNext(rec, buf, p) ==
    IF peek(buf, p) = -1 \/ peek(buf, p) = 101 THEN [st |-> "none"]
    ELSE LET v == rec[Call("eat_any", p)] IN
         IF v.st = "panic" THEN Panic
         ELSE IF v.st = "err" THEN [st |-> "none"]
         ELSE [st |-> "some", value |-> v.value, cursor |-> v.rest]

\* `while iter.next().is_some() {}` (and `for kv in dict`): the items yielded from
\* cursor p on and the cursor the iterator is left with.
DictDrain(rec, buf, p) ==
    LET n == rec[Call("DictNext", p)] IN
    IF n.st = "panic" THEN Panic
    ELSE IF n.st = "none" THEN [st |-> "ok", items |-> <<>>, cursor |-> p]
    ELSE LET r == rec[Call("DictDrain", n.cursor)] IN
         IF r.st = "panic" THEN Panic
         ELSE [st |-> "ok", items |-> <<n>> \o r.items, cursor |-> r.cursor]

ListDrain(rec, buf, p) ==
    LET n == rec[Call("ListNext", p)] IN
    IF n.st = "panic" THEN Panic
    ELSE IF n.st = "none" THEN [st |-> "ok", items |-> <<>>, cursor |-> p]
    ELSE LET r == rec[Call("ListDrain", n.cursor)] IN
         IF r.st = "panic" THEN Panic
         ELSE [st |-> "ok", items |-> <<n>> \o r.items, cursor |-> r.cursor]

\* Bencode::eat_dict: Ok gives the Dict (its cursor at) and the rest of the slice.
eat_dict(rec, buf, p) ==
    IF BufLen(buf, p) < 2 \/ peek(buf, p) # 100 THEN Panic
    ELSE LET iter == rec[Call("DictDrain", p + 1)] IN
         IF iter.st = "panic" THEN Panic
         ELSE IF peek(buf, iter.cursor) = 101
              THEN [st |-> "ok", value |-> ValDict(p + 1), rest |-> iter.cursor + 1]
         ELSE Err("UnknownError")

\* Bencode::eat_list.
eat_list(rec, buf, p) ==
    IF BufLen(buf, p) < 2 \/ peek(buf, p) # 108 THEN Panic
    ELSE LET iter == rec[Call("ListDrain", p + 1)] IN
         IF iter.st = "panic" THEN Panic
         ELSE IF peek(buf, iter.cursor) = 101
              THEN [st |-> "ok", value |-> ValList(p + 1), rest |-> iter.cursor + 1]
         ELSE Err("UnknownError")

\* Bencode::eat_any: dispatch on the next byte.
eat_any(rec, buf, p) ==
    LET c == peek(buf, p) IN
    IF c = 100 THEN rec[Call("eat_dict", p)]
    ELSE IF IsDigit(c) THEN
         LET s == eat_str(buf, p) IN
         IF s.st # "ok" THEN s
         ELSE [st |-> "ok", value |-> ValString(s.from, s.to), rest |-> s.rest]
    ELSE IF c = 108 THEN rec[Call("eat_list", p)]
    ELSE IF c = 105 THEN
         LET i == eat_integer(buf, p) IN
         IF i.st # "ok" THEN i
         ELSE LET int == ParseI64(SubSeq(buf, i.from, i.to)) IN
              IF ~IsUtf8(SubSeq(buf, i.from, i.to)) \/ ~int.ok THEN Err("InvalidInteger")
              ELSE [st |-> "ok", value |-> ValInteger(int.n), rest |-> i.rest]
    ELSE Err("UnknownError")

\* The decoder over buffer buf: the table of the calls above on its slices.
Bencode(buf) ==
    LET rec[c \in [f : {"eat_any", "eat_dict", "eat_list", "DictNext", "ListNext",
                        "DictDrain", "ListDrain"},
                   p : 1..(Len(buf) + 1)]] ==
            CASE c.f = "eat_any" -> eat_any(rec, buf, c.p)
              [] c.f = "eat_dict" -> eat_dict(rec, buf, c.p)
              [] c.f = "eat_list" -> eat_list(rec, buf, c.p)
              [] c.f = "DictNext" -> DictNext(rec, buf, c.p)
              [] c.f = "ListNext" -> ListNext(rec, buf, c.p)
              [] c.f = "DictDrain" -> DictDrain(rec, buf, c.p)
              [] c.f = "ListDrain" -> ListDrain(rec, buf, c.p)
    IN  rec

\* as_dict without the test of the leftover.
as_dict_IgnoreLeftover(rec, buf) == eat_dict(rec, buf, 1)

\* Bencode::as_dict of the whole datagram.
as_dict(rec, buf) ==
    LET d == eat_dict(rec, buf, 1) IN
    IF d.st # "ok" THEN d
    ELSE IF BufLen(buf, d.rest) > 0 THEN Err("UnknownError")
    ELSE d

\* ------------------------------------------------ mod.rs: the message model

None == [some |-> FALSE]
Some(v) == [some |-> TRUE, v |-> v]

\* KRPCQuery, KRPCResponse and KRPCError values (ids, targets, hashes, nodes and
\* tokens are byte sequences; an error's String is its UTF-8 bytes).
QueryPing(id) == [type |-> "Query", variant |-> "Ping", id |-> id]
QueryFindNode(id, target) ==
    [type |-> "Query", variant |-> "FindNode", id |-> id, target |-> target]
QueryGetPeers(id, info_hash) ==
    [type |-> "Query", variant |-> "GetPeers", id |-> id, info_hash |-> info_hash]
ResponsePing(id) == [type |-> "Response", variant |-> "Ping", id |-> id]
ResponseFindNode(id, nodes) ==
    [type |-> "Response", variant |-> "FindNode", id |-> id, nodes |-> nodes]
ResponseGetPeers(id, token) ==
    [type |-> "Response", variant |-> "GetPeers", id |-> id, token |-> token]
KRPCError(kind, msg) == [type |-> "Error", variant |-> kind, msg |-> msg]

KRPCMessage(transaction_id, message) ==
    [transaction_id |-> transaction_id, message |-> message]

\* Result<KRPCMessage, DecodingError>, or the panic of the decoder.
Ok(m) == [st |-> "ok", msg |-> m]

\* ------------------------------------------------- mod.rs: to_bencode

\* ErrorCodeOf with the code of GenericError for ServerError too.
ErrorCodeOf_ServerAsGeneric(kind) ==
    CASE kind = "UnknownError" -> 201
      [] kind = "GenericError" -> 201
      [] kind = "ServerError" -> 201
      [] kind = "ProtocolError" -> 203
      [] kind = "MethodUnknown" -> 204

\* The code to_bencode writes for each KRPCError kind.
ErrorCodeOf(kind) ==
    CASE kind = "UnknownError" -> 201
      [] kind = "GenericError" -> 201
      [] kind = "ServerError" -> 202
      [] kind = "ProtocolError" -> 203
      [] kind = "MethodUnknown" -> 204

\* format!("1:eli{code}e{}:{}e", msg.len(), msg).bytes()
EncodeError(err) ==
    <<49,58,101,108,105>> \o DecStr(ErrorCodeOf(err.variant)) \o <<101>>
        \o DecStr(Len(err.msg)) \o <<58>> \o err.msg \o <<101>>

\* The three arms of `KRPCMessageDetails::Query(q) => match q`.
EncodeQuery(q) ==
    CASE q.variant = "Ping" ->
            <<49,58,97,100,50,58,105,100,50,48,58>> \o q.id                \* 1:ad2:id20:
                \o <<101,49,58,113,52,58,112,105,110,103>>                  \* e1:q4:ping
      [] q.variant = "GetPeers" ->
            <<49,58,97,100,50,58,105,100,50,48,58>> \o q.id
                \o <<57,58,105,110,102,111,95,104,97,115,104,50,48,58>>     \* 9:info_hash20:
                \o q.info_hash
                \o <<101,49,58,113,57,58,103,101,116,95,112,101,101,114,115>> \* e1:q9:get_peers
      [] q.variant = "FindNode" ->
            <<49,58,97,100,50,58,105,100,50,48,58>> \o q.id
                \o <<54,58,116,97,114,103,101,116,50,48,58>>                \* 6:target20:
                \o q.target
                \o <<101,49,58,113,57,58,102,105,110,100,95,110,111,100,101>> \* e1:q9:find_node

\* The three arms of `KRPCMessageDetails::Response(q) => match q`.
EncodeResponse(r) ==
    CASE r.variant = "Ping" ->
            <<49,58,114,100,50,58,105,100,50,48,58>> \o r.id \o <<101>>     \* 1:rd2:id20: .. e
      [] r.variant = "GetPeers" ->
            <<49,58,114,100,50,58,105,100,50,48,58>> \o r.id
                \o <<53,58,116,111,107,101,110>> \o DecStr(Len(r.token)) \o <<58>>  \* 5:token<n>:
                \o r.token \o <<101>>
      [] r.variant = "FindNode" ->
            <<49,58,114,100,50,58,105,100,50,48,58>> \o r.id
                \o <<53,58,110,111,100,101,115>> \o DecStr(Len(r.nodes)) \o <<58>>  \* 5:nodes<n>:
                \o r.nodes \o <<101>>

\* EncodeTransactionId with the length prefix of the two-byte ids of the tests.
EncodeTransactionIdOfTwo(transaction_id) ==
    <<49,58,116,50,58>> \o transaction_id

\* The `1:t<n>:<tx>` that follows the body.
EncodeTransactionId(transaction_id) ==
    <<49,58,116>> \o DecStr(Len(transaction_id)) \o <<58>> \o transaction_id

\* message_type: 'e', 'q' or 'r'.
MessageTypeByte(message) ==
    CASE message.type = "Error" -> 101
      [] message.type = "Query" -> 113
      [] message.type = "Response" -> 114

\* to_bencode with the y entry written before the t entry.
to_bencode_TypeFirst(m) ==
    <<100>>
    \o (CASE m.message.type = "Error" -> EncodeError(m.message)
          [] m.message.type = "Query" -> EncodeQuery(m.message)
          [] m.message.type = "Response" -> EncodeResponse(m.message))
    \o <<49,58,121,49,58>> \o <<MessageTypeByte(m.message)>>
    \o EncodeTransactionId(m.transaction_id)
    \o <<101>>

\* <KRPCMessage as ToBencode>::to_bencode
to_bencode(m) ==
    <<100>>
    \o (CASE m.message.type = "Error" -> EncodeError(m.message)
          [] m.message.type = "Query" -> EncodeQuery(m.message)
          [] m.message.type = "Response" -> EncodeResponse(m.message))
    \o EncodeTransactionId(m.transaction_id)
    \o <<49,58,121,49,58>> \o <<MessageTypeByte(m.message)>>               \* 1:y1:
    \o <<101>>

\* ------------------------------------------------- mod.rs: from_bencode

\* The length to_20_bytes asks for.
IdLen == 20

\* to_20_bytes: Some(i) when i has 20 bytes.
to_20_bytes(i) == IF Len(i) = IdLen THEN Some(i) ELSE None

\* `v as u8` of an i64: the low 8 bits.
AsU8(v) == v % 256

\* `match code { 201 => .., 202 => .., 203 => .., 204 => .., _ => UnknownError }`
ErrorKindOf(code) ==
    CASE code = 201 -> "GenericError"
      [] code = 202 -> "ServerError"
      [] code = 203 -> "ProtocolError"
      [] code = 204 -> "MethodUnknown"
      [] OTHER -> "UnknownError"

\* The arms of `b"q" => match kv.value` for a string value; "" is the `_` arm.
QueryTypeOf(name) ==
    CASE name = <<112,105,110,103>> -> "Ping"                               \* ping
      [] name = <<102,105,110,100,95,110,111,100,101>> -> "FindNode"        \* find_node
      [] name = <<103,101,116,95,112,101,101,114,115>> -> "GetPeers"        \* get_peers
      [] name = <<97,110,110,111,117,110,99,101,95,112,101,101,114>> -> "GetPeers" \* announce_peer
      [] OTHER -> ""

\* The arms of `b"y" => match kv.value` for a string value; "" is the `_` arm.
MessageTypeOf(name) ==
    CASE name = <<101>> -> "Error"
      [] name = <<113>> -> "Query"
      [] name = <<114>> -> "Response"
      [] OTHER -> ""

\* The locals of from_bencode before the loop; ret is the error an arm returned.
Locals0 ==
    [ret |-> "", transaction_id |-> None, message_type |-> "Unknown",
     query_type |-> "Unknown", other_id |-> None, info_hash |-> None,
     target |-> None, token |-> None, nodes |-> None, error_details |-> None]

Return(l, e) == [l EXCEPT !.ret = e]

Bytes(buf, v) == SubSeq(buf, v.from, v.to)
KeyOf(buf, kv) == SubSeq(buf, kv.kfrom, kv.kto)

\* The arm `b"e" => match kv.value`.
ErrorArm(rec, buf, value, l) ==
    IF value.tag # "List" THEN Return(l, "RequiredFieldOfWrongType")
    ELSE LET raw_code == rec[Call("ListNext", value.at)]
             raw_message == IF raw_code.st = "some"
                                THEN rec[Call("ListNext", raw_code.cursor)]
                            ELSE raw_code
         IN  IF raw_code.st # "some" \/ raw_code.value.tag # "Integer"
                 THEN Return(l, "RequiredFieldOfWrongType")
             ELSE IF raw_message.st # "some" \/ raw_message.value.tag # "String"
                 THEN Return(l, "RequiredFieldOfWrongType")
             ELSE IF ~IsUtf8(Bytes(buf, raw_message.value))
                 THEN Return(l, "RequiredFieldOfWrongType")
             ELSE [l EXCEPT !.error_details =
                      Some(KRPCError(ErrorKindOf(AsU8(raw_code.value.n)),
                                     Bytes(buf, raw_message.value)))]

\* One turn of `for qdkv in mid` in the arm of b"r".
ResponseField(buf, qdkv, l) ==
    LET key == KeyOf(buf, qdkv) IN
    IF key = <<105,100>> THEN                                               \* id
         IF qdkv.value.tag # "String" THEN Return(l, "RequiredFieldOfWrongType")
         ELSE [l EXCEPT !.other_id = to_20_bytes(Bytes(buf, qdkv.value))]
    ELSE IF key = <<116,111,107,101,110>> THEN                              \* token
         IF qdkv.value.tag # "String" THEN Return(l, "RequiredFieldOfWrongType")
         ELSE [l EXCEPT !.token = Some(Bytes(buf, qdkv.value))]
    ELSE IF key = <<110,111,100,101,115>> THEN                              \* nodes
         IF qdkv.value.tag # "String" THEN Return(l, "RequiredFieldOfWrongType")
         ELSE [l EXCEPT !.nodes = Some(Bytes(buf, qdkv.value))]
    ELSE l

\* ArgumentField taking an id that is no string for an absent one.
ArgumentFieldLenient(buf, qdkv, l) ==
    LET key == KeyOf(buf, qdkv) IN
    IF key = <<105,100>> THEN
         IF qdkv.value.tag # "String" THEN [l EXCEPT !.other_id = None]
         ELSE [l EXCEPT !.other_id = to_20_bytes(Bytes(buf, qdkv.value))]
    ELSE IF key = <<105,110,102,111,95,104,97,115,104>> THEN
         IF qdkv.value.tag # "String" THEN Return(l, "RequiredFieldOfWrongType")
         ELSE [l EXCEPT !.info_hash = to_20_bytes(Bytes(buf, qdkv.value))]
    ELSE IF key = <<116,97,114,103,101,116>> THEN
         IF qdkv.value.tag # "String" THEN Return(l, "RequiredFieldOfWrongType")
         ELSE [l EXCEPT !.target = to_20_bytes(Bytes(buf, qdkv.value))]
    ELSE l

\* One turn of `for qdkv in mid` in the arm of b"a".
ArgumentField(buf, qdkv, l) ==
    LET key == KeyOf(buf, qdkv) IN
    IF key = <<105,100>> THEN                                               \* id
         IF qdkv.value.tag # "String" THEN Return(l, "RequiredFieldOfWrongType")
         ELSE [l EXCEPT !.other_id = to_20_bytes(Bytes(buf, qdkv.value))]
    ELSE IF key = <<105,110,102,111,95,104,97,115,104>> THEN                \* info_hash
         IF qdkv.value.tag # "String" THEN Return(l, "RequiredFieldOfWrongType")
         ELSE [l EXCEPT !.info_hash = to_20_bytes(Bytes(buf, qdkv.value))]
    ELSE IF key = <<116,97,114,103,101,116>> THEN                           \* target
         IF qdkv.value.tag # "String" THEN Return(l, "RequiredFieldOfWrongType")
         ELSE [l EXCEPT !.target = to_20_bytes(Bytes(buf, qdkv.value))]
    ELSE l

\* `for qdkv in mid { .. }` over the items of a nested dictionary, stopped by the
\* first arm that returns.
RECURSIVE ResponseLoop(_, _, _)
ResponseLoop(buf, items, l) ==
    IF items = <<>> \/ l.ret # "" THEN l
    ELSE ResponseLoop(buf, Tail(items), ResponseField(buf, Head(items), l))

RECURSIVE ArgumentLoop(_, _, _)
ArgumentLoop(buf, items, l) ==
    IF items = <<>> \/ l.ret # "" THEN l
    ELSE ArgumentLoop(buf, Tail(items), ArgumentField(buf, Head(items), l))

\* TopLevelField with a last arm that rejects the keys it does not know.
TopLevelFieldStrict(rec, buf, kv, l) ==
    LET key == KeyOf(buf, kv)
        value == kv.value
    IN  IF key = <<116>> THEN
             IF value.tag # "String" THEN Return(l, "RequiredFieldOfWrongType")
             ELSE [l EXCEPT !.transaction_id = Some(Bytes(buf, value))]
        ELSE IF key = <<121>> THEN
             IF value.tag # "String" \/ MessageTypeOf(Bytes(buf, value)) = ""
                 THEN Return(l, "RequiredFieldOfWrongType")
             ELSE [l EXCEPT !.message_type = MessageTypeOf(Bytes(buf, value))]
        ELSE IF key = <<101>> THEN ErrorArm(rec, buf, value, l)
        ELSE IF key = <<113>> THEN
             IF value.tag # "String" \/ QueryTypeOf(Bytes(buf, value)) = ""
                 THEN Return(l, "RequiredFieldOfWrongType")
             ELSE [l EXCEPT !.query_type = QueryTypeOf(Bytes(buf, value))]
        ELSE IF key = <<114>> THEN
             IF value.tag # "Dict" THEN Return(l, "RequiredFieldOfWrongType")
             ELSE ResponseLoop(buf, rec[Call("DictDrain", value.at)].items, l)
        ELSE IF key = <<97>> THEN
             IF value.tag # "Dict" THEN Return(l, "RequiredFieldOfWrongType")
             ELSE ArgumentLoop(buf, rec[Call("DictDrain", value.at)].items, l)
        ELSE Return(l, "RequiredFieldOfWrongType")

\* One turn of `for kv in top_level`: `match kv.key`.
TopLevelField(rec, buf, kv, l) ==
    LET key == KeyOf(buf, kv)
        value == kv.value
    IN  IF key = <<116>> THEN                                               \* t
             IF value.tag # "String" THEN Return(l, "RequiredFieldOfWrongType")
             ELSE [l EXCEPT !.transaction_id = Some(Bytes(buf, value))]
        ELSE IF key = <<121>> THEN                                          \* y
             IF value.tag # "String" \/ MessageTypeOf(Bytes(buf, value)) = ""
                 THEN Return(l, "RequiredFieldOfWrongType")
             ELSE [l EXCEPT !.message_type = MessageTypeOf(Bytes(buf, value))]
        ELSE IF key = <<101>> THEN ErrorArm(rec, buf, value, l)                 \* e
        ELSE IF key = <<113>> THEN                                          \* q
             IF value.tag # "String" \/ QueryTypeOf(Bytes(buf, value)) = ""
                 THEN Return(l, "RequiredFieldOfWrongType")
             ELSE [l EXCEPT !.query_type = QueryTypeOf(Bytes(buf, value))]
        ELSE IF key = <<114>> THEN                                          \* r
             IF value.tag # "Dict" THEN Return(l, "RequiredFieldOfWrongType")
             ELSE ResponseLoop(buf, rec[Call("DictDrain", value.at)].items, l)
        ELSE IF key = <<97>> THEN                                           \* a
             IF value.tag # "Dict" THEN Return(l, "RequiredFieldOfWrongType")
             ELSE ArgumentLoop(buf, rec[Call("DictDrain", value.at)].items, l)
        ELSE l

RECURSIVE TopLevelLoop(_, _, _, _)
TopLevelLoop(rec, buf, items, l) ==
    IF items = <<>> \/ l.ret # "" THEN l
    ELSE TopLevelLoop(rec, buf, Tail(items), TopLevelField(rec, buf, Head(items), l))

\* `MessageType::Query => KRPCMessageDetails::Query(match query_type { .. })`
BuildQuery(l) ==
    IF l.query_type = "Ping" THEN
         IF ~l.other_id.some THEN Err("MissingRequiredField")
         ELSE Ok(QueryPing(l.other_id.v))
    ELSE IF l.query_type = "GetPeers" THEN
         IF ~l.other_id.some \/ ~l.info_hash.some THEN Err("MissingRequiredField")
         ELSE Ok(QueryGetPeers(l.other_id.v, l.info_hash.v))
    ELSE IF l.query_type = "FindNode" THEN
         IF ~l.other_id.some \/ ~l.target.some THEN Err("MissingRequiredField")
         ELSE Ok(QueryFindNode(l.other_id.v, l.target.v))
    ELSE Err("MissingRequiredField")

\* BuildResponse looking at nodes before token.
BuildResponseNodesFirst(l) ==
    IF l.nodes.some THEN
         IF ~l.other_id.some THEN Err("MissingRequiredField")
         ELSE Ok(ResponseFindNode(l.other_id.v, l.nodes.v))
    ELSE IF l.token.some THEN
         IF ~l.other_id.some THEN Err("MissingRequiredField")
         ELSE Ok(ResponseGetPeers(l.other_id.v, l.token.v))
    ELSE IF l.other_id.some THEN Ok(ResponsePing(l.other_id.v))
    ELSE Err("MissingRequiredField")

\* `MessageType::Response => { .. }`: the variant inferred from the fields.
BuildResponse(l) ==
    IF l.token.some THEN
         IF ~l.other_id.some THEN Err("MissingRequiredField")
         ELSE Ok(ResponseGetPeers(l.other_id.v, l.token.v))
    ELSE IF l.nodes.some THEN
         IF ~l.other_id.some THEN Err("MissingRequiredField")
         ELSE Ok(ResponseFindNode(l.other_id.v, l.nodes.v))
    ELSE IF l.other_id.some THEN Ok(ResponsePing(l.other_id.v))
    ELSE Err("MissingRequiredField")

\* `MessageType::Error => KRPCMessageDetails::Error(error_details.ok_or(..)?)`
BuildError(l) ==
    IF ~l.error_details.some THEN Err("MissingRequiredField")
    ELSE Ok(l.error_details.v)

\* BuildMessage with an empty transaction id for an absent one.
BuildMessageDefaultId(l) ==
    LET message ==
          CASE l.message_type = "Error" -> BuildError(l)
            [] l.message_type = "Query" -> BuildQuery(l)
            [] l.message_type = "Response" -> BuildResponse(l)
            [] OTHER -> Err("MissingRequiredField")
    IN  IF message.st # "ok" THEN message
        ELSE Ok(KRPCMessage(IF l.transaction_id.some THEN l.transaction_id.v ELSE <<>>,
                            message.msg))

\* The `Ok(KRPCMessage { .. })` that ends from_bencode.
BuildMessage(l) ==
    IF ~l.transaction_id.some THEN Err("MissingRequiredField")
    ELSE LET message ==
               CASE l.message_type = "Error" -> BuildError(l)
                 [] l.message_type = "Query" -> BuildQuery(l)
                 [] l.message_type = "Response" -> BuildResponse(l)
                 [] OTHER -> Err("MissingRequiredField")
         IN  IF message.st # "ok" THEN message
             ELSE Ok(KRPCMessage(l.transaction_id.v, message.msg))

\* <KRPCMessage as FromBencode>::from_bencode
from_bencode(serialised) ==
    LET rec == Bencode(serialised)
        top_level == as_dict(rec, serialised)
    IN  IF top_level.st # "ok" THEN top_level
        ELSE LET l == TopLevelLoop(rec, serialised,
                                   rec[Call("DictDrain", top_level.value.at)].items,
                                   Locals0)
             IN  IF l.ret # "" THEN Err(l.ret) ELSE BuildMessage(l)

\* ------------------------------------------- the datagrams the decoder is given

\* A datagram handed over by the socket layer is described by the Bencode value it
\* writes (section 6 of the specification: strings `<len>:<bytes>`, integers
\* `i<decimal>e`, lists `l..e`, dictionaries `d..e`); Render gives its bytes.
BStr(b) == [tag |-> "s", b |-> b]
BInt(n) == [tag |-> "i", n |-> n]
BList(items) == [tag |-> "l", items |-> items]
BDict(entries) == [tag |-> "d", entries |-> entries]
Entry(k, v) == [k |-> k, v |-> v]

RECURSIVE Render(_), RenderAll(_), RenderEntries(_)
Render(v) ==
    CASE v.tag = "s" -> DecStr(Len(v.b)) \o <<58>> \o v.b
      [] v.tag = "i" -> <<105>> \o IntStr(v.n) \o <<101>>
      [] v.tag = "l" -> <<108>> \o RenderAll(v.items) \o <<101>>
      [] v.tag = "d" -> <<100>> \o RenderEntries(v.entries) \o <<101>>

RenderAll(items) ==
    IF items = <<>> THEN <<>> ELSE Render(Head(items)) \o RenderAll(Tail(items))

RenderEntries(entries) ==
    IF entries = <<>> THEN <<>>
    ELSE Render(BStr(Head(entries).k)) \o Render(Head(entries).v)
             \o RenderEntries(Tail(entries))

\* The entries of a dictionary, read by key.
Has(entries, k) == \E i \in 1..Len(entries) : entries[i].k = k
Get(entries, k) == entries[CHOOSE i \in 1..Len(entries) : entries[i].k = k].v
Without(entries, k) == SelectSeq(entries, LAMBDA e : e.k # k)

\* entries with entry e put at its place in lexicographic key order.
RECURSIVE InsertSorted(_, _)
InsertSorted(entries, e) ==
    IF entries = <<>> THEN <<e>>
    ELSE IF BytesLess(e.k, Head(entries).k) THEN <<e>> \o entries
    ELSE <<Head(entries)>> \o InsertSorted(Tail(entries), e)

\* The entries of a sequence of optional entries (<<>> for an absent one).
Present(opts) == Concat(opts)

K_a == <<97>>
K_e == <<101>>
K_q == <<113>>
K_r == <<114>>
K_t == <<116>>
K_y == <<121>>
K_id == <<105,100>>
K_info_hash == <<105,110,102,111,95,104,97,115,104>>
K_nodes == <<110,111,100,101,115>>
K_target == <<116,97,114,103,101,116>>
K_token == <<116,111,107,101,110>>
K_values == <<118,97,108,117,101,115>>
KnownKeys == {K_a, K_e, K_q, K_r, K_t, K_y}

M_ping == <<112,105,110,103>>
M_find_node == <<102,105,110,100,95,110,111,100,101>>
M_get_peers == <<103,101,116,95,112,101,101,114,115>>
M_announce_peer == <<97,110,110,111,117,110,99,101,95,112,101,101,114>>
Methods == {M_ping, M_find_node, M_get_peers, M_announce_peer}

\* ------------------------------------------------------------------ bounds

\* An identifier field of a datagram has IdLen - MaxLenDelta .. IdLen + MaxLenDelta bytes.
MaxLenDelta == 1
\* nodes, token and transaction ids have up to this many bytes.
MaxStrLen == 2
\* An error message has up to this many bytes.
MaxMsgLen == 2
\* Unknown top-level entries added to one datagram.
MaxUnknown == 1

\* ------------------------------------------------------------------ inputs

\* abcdefghij0123456789 and mnopqrstuvwxyz123456, the ids of the source's tests.
IdA == <<97,98,99,100,101,102,103,104,105,106,48,49,50,51,52,53,54,55,56,57>>
IdB == <<109,110,111,112,113,114,115,116,117,118,119,120,121,122,49,50,51,52,53,54>>
Ids == {IdA, IdB}

\* The first n bytes of `e:1:de0:i-\xFFle...`: bytes that are Bencode syntax when
\* read as such, and one that is no UTF-8.
Filler == <<101,58,49,58,100,101,48,58,105,45,255,108,101,46,46,46>>
Strs == {SubSeq(Filler, 1, n) : n \in 0..MaxStrLen}
\* Transaction ids: those, and the `aa` of the source's tests.
TxIds == Strs \cup {<<97,97>>}
\* Error messages: prefixes of `e\xC3\xA9: A Generic Error` (UTF-8).
MsgFiller == <<101,195,169,58,32,65,32,71,101,110,101,114,105,99>>
Msgs == {m \in {SubSeq(MsgFiller, 1, n) : n \in 0..MaxMsgLen} : IsUtf8(m)}

ErrorKinds == {"UnknownError", "GenericError", "ServerError", "ProtocolError",
               "MethodUnknown"}

\* The messages given to the encoder.
Queries ==
    {QueryPing(id) : id \in Ids}
    \cup {QueryFindNode(id, IdB) : id \in Ids}
    \cup {QueryGetPeers(id, IdA) : id \in Ids}
Responses ==
    {ResponsePing(id) : id \in Ids}
    \cup {ResponseFindNode(IdA, n) : n \in Strs \cup {Filler}}
    \cup {ResponseGetPeers(IdB, t) : t \in Strs \cup {Filler}}
Errors == {KRPCError(k, m) : k \in ErrorKinds, m \in Msgs}
Messages == {KRPCMessage(tx, d) : tx \in TxIds, d \in Queries \cup Responses \cup Errors}

\* An identifier-like field of a received dictionary: absent, a string of about
\* IdLen bytes, or an integer.
IdLike(n) == SubSeq(IdA \o IdB, 1, n)
IdFieldOpts(k) ==
    {<<>>, <<Entry(k, BInt(7))>>}
    \cup {<<Entry(k, BStr(IdLike(n)))>> : n \in (IdLen - MaxLenDelta)..(IdLen + MaxLenDelta)}

\* A nodes or token field: absent, a string, or a list.
StrFieldOpts(k) ==
    {<<>>, <<Entry(k, BList(<<BStr(<<120>>)>>))>>}
    \cup {<<Entry(k, BStr(s))>> : s \in Strs}

\* The q entry: absent, a method name, another string, an integer.
QOpts ==
    {<<>>, <<Entry(K_q, BStr(<<102,111,111>>))>>, <<Entry(K_q, BInt(1))>>}
    \cup {<<Entry(K_q, BStr(m))>> : m \in Methods}

\* The error codes of received e lists: the four known ones, their neighbours,
\* and numbers that differ from a known one by a multiple of 256.
Codes == {201, 202, 203, 204, 200, 205, 0, -1, 255, 256, 457, 460, 2000,
          -55, -52, -256, 201 + 65536}

\* The e entry: [code, message], and lists and values of other shapes.
EOpts ==
    {<<Entry(K_e, BList(<<BInt(c), BStr(m)>>))>> : c \in Codes, m \in Msgs}
    \cup {<<Entry(K_e, v)>> : v \in
            {BList(<<>>), BList(<<BInt(201)>>), BList(<<BStr(<<97>>), BInt(201)>>),
             BList(<<BInt(201), BInt(202)>>), BList(<<BInt(201), BStr(<<255>>)>>),
             BList(<<BInt(203), BStr(<<97>>), BStr(<<98>>)>>),
             BStr(<<97>>), BDict(<<>>)}}

\* Unknown top-level entries, with values of every Bencode shape.
UnknownEntries ==
    {Entry(<<48>>, BList(<<BStr(<<101,58>>), BInt(-7), BList(<<>>)>>)),
     Entry(<<122>>, BDict(<<Entry(K_t, BStr(<<122,122>>)), Entry(K_y, BInt(1))>>))}

\* Known-key entries that belong to another kind of message.
ForeignEntries ==
    {Entry(K_a, BDict(<<Entry(K_id, BStr(IdB))>>)),
     Entry(K_r, BDict(<<Entry(K_id, BStr(IdB))>>)),
     Entry(K_e, BList(<<BInt(202), BStr(<<>>)>>))}

\* Values of the wrong shape, or unrecognised, for t and y.
BadValues(k) ==
    IF k = K_t THEN {BInt(5)} ELSE {BList(<<>>), BStr(<<120>>)}

\* d1:ad2:id20:abcdefghij0123456789e1:q4:ping1:t2:aa1:y1:qe, the ping of the tests.
PingDatagram == to_bencode(KRPCMessage(<<97,97>>, QueryPing(IdA)))

\* Bytes that are no complete datagram: the first n bytes of the ping, for every n,
\* a top-level integer, and dictionaries whose last value is the integer `ie`,
\* `i` or `i1` with nothing behind it.
RawDatagrams ==
    {SubSeq(PingDatagram, 1, n) : n \in 0..(Len(PingDatagram) - 1)}
    \cup {<<105,49,101>>, <<100,49,58,120,105,101>>, <<100,49,58,120,105>>,
          <<100,49,58,120,105,49>>, <<100,49,58,120,108>>, <<100,49,58,120,100>>}

\* ------------------------------------------------------------------ state

VARIABLES
    pc,        \* "idle", "wire" (a datagram is at hand), "decoded"
    source,    \* "none", "encoder" (wire = to_bencode(msg)), "network"
    msg,       \* the message given to the encoder
    dgram,     \* the top-level entries of the datagram received from the network
    wire,      \* the datagram's bytes
    result,    \* what from_bencode returned for wire
    base,      \* what from_bencode returned before unknown entries were added
    added,     \* number of unknown entries added to the datagram
    edited,    \* "none", "foreign" (a foreign entry was added), "entry" (t or y was
               \* dropped or replaced)
    call,      \* the library function being called, with its arguments
    ret        \* what that call returned

vars == <<pc, source, msg, dgram, wire, result, base, added, edited, call, ret>>

NoMsg == KRPCMessage(<<>>, [type |-> "None"])
NoResult == [st |-> "none"]
NoCall == [fn |-> "none"]

Init ==
    /\ pc = "idle"
    /\ source = "none"
    /\ msg = NoMsg
    /\ dgram = <<>>
    /\ wire = <<>>
    /\ result = NoResult
    /\ base = NoResult
    /\ added = 0
    /\ edited = "none"
    /\ call = NoCall
    /\ ret = NoResult

\* The caller encodes message m: main.rs calls to_bencode before send_to.
Encode(m) ==
    /\ pc = "idle"
    /\ pc' = "wire"
    /\ source' = "encoder"
    /\ msg' = m
    /\ wire' = to_bencode(m)
    /\ UNCHANGED <<call, ret, dgram, result, base, added, edited>>

\* The socket layer hands over a datagram with the given top-level entries.
Receive(entries) ==
    /\ pc = "idle"
    /\ pc' = "wire"
    /\ source' = "network"
    /\ dgram' = entries
    /\ wire' = Render(BDict(entries))
    /\ UNCHANGED <<call, ret, msg, result, base, added, edited>>

\* The socket layer hands over bytes that are no complete datagram: a datagram of
\* the tests cut short, or one with an integer cut short.
ReceiveRaw ==
    /\ pc = "idle"
    /\ pc' = "wire"
    /\ source' = "raw"
    /\ \E bytes \in RawDatagrams : wire' = bytes
    /\ UNCHANGED <<call, ret, msg, dgram, result, base, added, edited>>

\* A datagram shaped like a query: a, q, t, y = q.
ReceiveQuery ==
    \E q \in QOpts, id \in IdFieldOpts(K_id),
       k \in {K_info_hash, K_target} :
       \E arg \in IdFieldOpts(k) :
          Receive(Present(<<
              <<Entry(K_a, BDict(Present(<<id, arg>>)))>>, q,
              <<Entry(K_t, BStr(<<97,97>>))>>, <<Entry(K_y, BStr(K_q))>> >>))

\* A query whose a entry is no dictionary, or is missing.
ReceiveQueryNoArgs ==
    \E q \in QOpts, a \in {<<>>, <<Entry(K_a, BStr(IdA))>>, <<Entry(K_a, BList(<<>>))>>} :
       Receive(Present(<<a, q, <<Entry(K_t, BStr(<<97,97>>))>>,
                         <<Entry(K_y, BStr(K_q))>> >>))

\* A datagram shaped like a response: r, t, y = r.
ReceiveResponse ==
    \E id \in IdFieldOpts(K_id), nodes \in StrFieldOpts(K_nodes),
       token \in StrFieldOpts(K_token),
       values \in {<<>>, <<Entry(K_values, BList(<<BStr(<<97,120,106,101,46,117>>)>>))>>} :
       Receive(Present(<<
           <<Entry(K_r, BDict(Present(<<id, nodes, token, values>>)))>>,
           <<Entry(K_t, BStr(<<>>))>>, <<Entry(K_y, BStr(K_r))>> >>))

\* A response whose r entry is no dictionary, or is missing.
ReceiveResponseNoDict ==
    \E r \in {<<>>, <<Entry(K_r, BStr(IdA))>>, <<Entry(K_r, BInt(0))>>} :
       Receive(Present(<<r, <<Entry(K_t, BStr(<<97,97>>))>>, <<Entry(K_y, BStr(K_r))>> >>))

\* A datagram shaped like an error: e, t, y = e.
ReceiveError ==
    \E e \in EOpts \cup {<<>>} :
       Receive(Present(<<e, <<Entry(K_t, BStr(<<101>>))>>, <<Entry(K_y, BStr(K_e))>> >>))

\* The received datagram lacks its t or y entry.
DropEntry ==
    /\ pc = "wire" /\ source = "network" /\ edited \in {"none", "foreign"} /\ added = 0
    /\ \E k \in {K_t, K_y} :
          /\ Has(dgram, k)
          /\ dgram' = Without(dgram, k)
    /\ wire' = Render(BDict(dgram'))
    /\ edited' = "entry"
    /\ UNCHANGED <<call, ret, pc, source, msg, result, base, added>>

\* The received datagram's t or y entry has another value.
ReplaceEntry ==
    /\ pc = "wire" /\ source = "network" /\ edited = "none" /\ added = 0
    /\ \E k \in {K_t, K_y} : \E v \in BadValues(k) :
          /\ Has(dgram, k)
          /\ dgram' = InsertSorted(Without(dgram, k), Entry(k, v))
    /\ wire' = Render(BDict(dgram'))
    /\ edited' = "entry"
    /\ UNCHANGED <<call, ret, pc, source, msg, result, base, added>>

\* The received datagram also holds an entry of another kind of message.
AddForeign ==
    /\ pc = "wire" /\ source = "network" /\ edited = "none" /\ added = 0
    /\ \E e \in ForeignEntries :
          /\ ~Has(dgram, e.k)
          /\ dgram' = InsertSorted(dgram, e)
    /\ wire' = Render(BDict(dgram'))
    /\ edited' = "foreign"
    /\ UNCHANGED <<call, ret, pc, source, msg, result, base, added>>

\* Bytes behind the dictionary of a datagram: an e, an empty dictionary, a line feed.
Trailers == {<<101>>, <<100,101>>, <<10>>}

\* The received datagram arrives with bytes behind its dictionary.
AppendBytes ==
    /\ pc = "wire" /\ source = "network" /\ edited = "none" /\ added = 0
    /\ \E extra \in Trailers : wire' = wire \o extra
    /\ source' = "padded"
    /\ UNCHANGED <<call, ret, pc, msg, dgram, result, base, added, edited>>

\* from_bencode is called on the datagram at hand.
Decode ==
    /\ pc = "wire"
    /\ pc' = "decoded"
    /\ result' = from_bencode(wire)
    /\ base' = IF added = 0 THEN result' ELSE base
    /\ UNCHANGED <<call, ret, source, msg, dgram, wire, added, edited>>

\* The same datagram arrives with one more unknown top-level entry.
AddUnknown ==
    /\ pc = "decoded" /\ source = "network" /\ added < MaxUnknown
    /\ \E e \in UnknownEntries :
          /\ ~Has(dgram, e.k)
          /\ dgram' = InsertSorted(dgram, e)
    /\ wire' = Render(BDict(dgram'))
    /\ pc' = "wire"
    /\ added' = added + 1
    /\ result' = NoResult
    /\ UNCHANGED <<call, ret, source, msg, base, edited>>

\* The decoded message is dispatched and dropped.
Discard ==
    /\ pc = "decoded"
    /\ pc' = "idle"
    /\ source' = "none"
    /\ msg' = NoMsg
    /\ dgram' = <<>>
    /\ wire' = <<>>
    /\ result' = NoResult
    /\ base' = NoResult
    /\ added' = 0
    /\ edited' = "none"
    /\ UNCHANGED <<call, ret>>

Next ==
    \/ \E m \in Messages : Encode(m)
    \/ ReceiveRaw
    \/ ReceiveQuery
    \/ ReceiveQueryNoArgs
    \/ ReceiveResponse
    \/ ReceiveResponseNoDict
    \/ ReceiveError
    \/ DropEntry
    \/ ReplaceEntry
    \/ AddForeign
    \/ AppendBytes
    \/ Decode
    \/ AddUnknown
    \/ Discard

Spec == Init /\ [][Next]_vars


\* ------------------------------------------------------------------ properties

\* The elements of sequence s.
Range(s) == {s[i] : i \in 1..Len(s)}

\* The entries of set S in lexicographic key order (keys distinct).
RECURSIVE SortEntries(_)
SortEntries(S) ==
    IF S = {} THEN <<>>
    ELSE LET e == CHOOSE e \in S : \A f \in S \ {e} : BytesLess(e.k, f.k)
         IN  <<e>> \o SortEntries(S \ {e})

\* The code the specification gives each error kind on the wire.
WireCode(kind) ==
    CASE kind = "GenericError" -> 201
      [] kind = "ServerError" -> 202
      [] kind = "ProtocolError" -> 203
      [] kind = "MethodUnknown" -> 204

\* The dictionary the specification's wire shape gives message m.
MessageDict(m) ==
    LET d == m.message
        id == Entry(K_id, BStr(d.id))
        body ==
            CASE d.type = "Query" /\ d.variant = "Ping" ->
                    {Entry(K_a, BDict(SortEntries({id}))), Entry(K_q, BStr(M_ping))}
              [] d.type = "Query" /\ d.variant = "FindNode" ->
                    {Entry(K_a, BDict(SortEntries({id, Entry(K_target, BStr(d.target))}))),
                     Entry(K_q, BStr(M_find_node))}
              [] d.type = "Query" /\ d.variant = "GetPeers" ->
                    {Entry(K_a, BDict(SortEntries({id, Entry(K_info_hash, BStr(d.info_hash))}))),
                     Entry(K_q, BStr(M_get_peers))}
              [] d.type = "Response" /\ d.variant = "Ping" ->
                    {Entry(K_r, BDict(SortEntries({id})))}
              [] d.type = "Response" /\ d.variant = "FindNode" ->
                    {Entry(K_r, BDict(SortEntries({id, Entry(K_nodes, BStr(d.nodes))})))}
              [] d.type = "Response" /\ d.variant = "GetPeers" ->
                    {Entry(K_r, BDict(SortEntries({id, Entry(K_token, BStr(d.token))})))}
              [] d.type = "Error" ->
                    {Entry(K_e, BList(<<BInt(WireCode(d.variant)), BStr(d.msg)>>))}
    IN  BDict(SortEntries(body \cup {Entry(K_t, BStr(m.transaction_id)),
                                     Entry(K_y, BStr(<<MessageTypeByte(d)>>))}))

\* C1: for every message m the encoder accepts, Error of kind Unknown included,
\* and every transaction id, from_bencode(to_bencode(m)) returns Ok(m).
C1_RoundTripEveryVariant ==
    (pc = "decoded" /\ source = "encoder") => result = Ok(msg)

\* C2: for every Query, every Response and every Error of kind Generic, Server,
\* Protocol or MethodUnknown, with any transaction id, the output of to_bencode is
\* byte for byte the canonical bencoding of the message's dictionary: keys in
\* lexicographic order, every string behind its decimal length.
C2_ByteExact ==
    (pc = "wire" /\ source = "encoder" /\ msg.message.variant # "UnknownError")
        => wire = Render(MessageDict(msg))

\* A Ping query with id abcdefghij0123456789 and transaction id aa was encoded as
\* d1:ad2:id20:abcdefghij0123456789e1:q4:ping1:t2:aa1:y1:qe.
C2_Witness ==
    /\ pc = "wire" /\ source = "encoder"
    /\ msg = KRPCMessage(<<97,97>>, QueryPing(IdA))
    /\ wire = <<100,49,58,97,100,50,58,105,100,50,48,58>> \o IdA
                \o <<101,49,58,113,52,58,112,105,110,103,49,58,116,50,58,97,97,
                     49,58,121,49,58,113,101>>

\* The keys of the dictionary whose iterator starts at `at`, in the order read.
KeysAt(rec, buf, at) ==
    LET items == rec[Call("DictDrain", at)].items
    IN  [i \in 1..Len(items) |-> KeyOf(buf, items[i])]

StrictlyIncreasing(keys) ==
    \A i \in 1..(Len(keys) - 1) : BytesLess(keys[i], keys[i + 1])

\* Every dictionary of buffer buf, the top-level one and those nested in its
\* entries, has strictly increasing keys; nothing is nested deeper.
DictsSorted(buf) ==
    LET rec == Bencode(buf)
        top == as_dict(rec, buf)
    IN  /\ top.st = "ok"
        /\ StrictlyIncreasing(KeysAt(rec, buf, top.value.at))
        /\ LET items == rec[Call("DictDrain", top.value.at)].items
           IN  \A i \in 1..Len(items) :
                  /\ items[i].value.tag = "Dict" =>
                        /\ StrictlyIncreasing(KeysAt(rec, buf, items[i].value.at))
                        /\ \A kv \in Range(rec[Call("DictDrain", items[i].value.at)].items) :
                              kv.value.tag = "String"
                  /\ items[i].value.tag = "List" =>
                        \A v \in Range(rec[Call("ListDrain", items[i].value.at)].items) :
                           v.value.tag \in {"String", "Integer"}

\* C10: for every message variant and field content, every dictionary in the
\* output of to_bencode, the top-level one and the nested a or r one, has its keys
\* in strictly increasing lexicographic byte order.
C10_KeysStrictlyIncreasing ==
    (pc = "wire" /\ source = "encoder") => DictsSorted(wire)

\* A FindNode query, whose a dictionary holds the two keys id and target, was encoded.
C10_Witness ==
    /\ pc = "wire" /\ source = "encoder"
    /\ msg.message.type = "Query" /\ msg.message.variant = "FindNode"
    /\ LET rec == Bencode(wire)
       IN  /\ KeysAt(rec, wire, 2) = <<K_a, K_q, K_t, K_y>>
           /\ KeysAt(rec, wire, 6) = <<K_id, K_target>>


\* ---------------------------------------------- properties of received datagrams

\* Entry k of the datagram has a string value / the string b as value.
IsStr(entries, k) == Has(entries, k) /\ Get(entries, k).tag = "s"
IsStrOf(entries, k, b) == IsStr(entries, k) /\ Get(entries, k).b = b

\* The entries of the dictionary at key k (none when k holds no dictionary).
Sub(entries, k) ==
    IF Has(entries, k) /\ Get(entries, k).tag = "d" THEN Get(entries, k).entries
    ELSE <<>>

\* Entry k of dictionary `entries` is a string of IdLen bytes.
IsId(entries, k) == IsStr(entries, k) /\ Len(Get(entries, k).b) = IdLen

\* Value v is a list [integer, string, ...].
IsCodeAndMessage(v) ==
    /\ v.tag = "l" /\ Len(v.items) >= 2
    /\ v.items[1].tag = "i" /\ v.items[2].tag = "s"

\* A known key is present with the wrong Bencode shape: t, y or q no string, a
\* or r no dictionary, e no list of [integer, string], id, target, info_hash of
\* a or id, token, nodes of r no string.
WrongShape(entries) ==
    \/ \E k \in {K_t, K_y, K_q} : Has(entries, k) /\ ~IsStr(entries, k)
    \/ \E k \in {K_a, K_r} : Has(entries, k) /\ Get(entries, k).tag # "d"
    \/ Has(entries, K_e) /\ ~IsCodeAndMessage(Get(entries, K_e))
    \/ \E k \in {K_id, K_target, K_info_hash} :
          Has(Sub(entries, K_a), k) /\ ~IsStr(Sub(entries, K_a), k)
    \/ \E k \in {K_id, K_token, K_nodes} :
          Has(Sub(entries, K_r), k) /\ ~IsStr(Sub(entries, K_r), k)

\* Every known key that is present is well-shaped: of the right Bencode shape,
\* y one of e, q, r, q a recognised method name, the error message UTF-8.
WellShaped(entries) ==
    /\ ~WrongShape(entries)
    /\ Has(entries, K_y) => Get(entries, K_y).b \in {K_e, K_q, K_r}
    /\ Has(entries, K_q) => Get(entries, K_q).b \in Methods
    /\ Has(entries, K_e) => IsUtf8(Get(entries, K_e).items[2].b)

Decoded == pc = "decoded" /\ source = "network"
IsResponse(r, variant) ==
    r.st = "ok" /\ r.msg.message.type = "Response" /\ r.msg.message.variant = variant

ResponseOf(r, id) ==
    IF Has(r, K_token) THEN ResponseGetPeers(id, Get(r, K_token).b)
    ELSE IF Has(r, K_nodes) THEN ResponseFindNode(id, Get(r, K_nodes).b)
    ELSE ResponsePing(id)

C4_UnknownKeysIgnored ==
    (Decoded /\ added > 0) => result = base

\* A datagram that decoded to a message decodes to the same message with an
\* unknown entry added.
C4_Witness ==
    /\ Decoded /\ added > 0
    /\ \E e \in UnknownEntries : Has(dgram, e.k)
    /\ result.st = "ok" /\ result = base

\* The kind the specification gives error code c.
KindOf(c) ==
    CASE c = 201 -> "GenericError"
      [] c = 202 -> "ServerError"
      [] c = 203 -> "ProtocolError"
      [] c = 204 -> "MethodUnknown"
      [] OTHER -> "UnknownError"

\* C5: an error message whose list is [code, message] decodes to kind Generic for
\* code 201, Server for 202, Protocol for 203, MethodUnknown for 204 and Unknown
\* for every other code, negative ones and ones above 255 included.
C5_KindOfEveryCode ==
    (/\ Decoded /\ WellShaped(dgram)
     /\ IsStr(dgram, K_t) /\ IsStrOf(dgram, K_y, K_e) /\ Has(dgram, K_e))
    => LET e == Get(dgram, K_e).items
       IN  result = Ok(KRPCMessage(Get(dgram, K_t).b,
                                   KRPCError(KindOf(e[1].n), e[2].b)))

\* C6: a datagram whose known keys are all well-shaped and that has no t entry
\* decodes to MissingRequiredField, whatever y, q, a, r, e entries it holds; so
\* does one that has no y entry.
C6_MissingTransactionIdOrType ==
    (Decoded /\ WellShaped(dgram) /\ (~Has(dgram, K_t) \/ ~Has(dgram, K_y)))
    => result = Err("MissingRequiredField")

\* A complete get_peers query that also holds an r dictionary, without its t entry.
C6_Witness ==
    /\ Decoded /\ WellShaped(dgram) /\ ~Has(dgram, K_t)
    /\ IsStrOf(dgram, K_y, K_q) /\ IsStrOf(dgram, K_q, M_get_peers)
    /\ IsId(Sub(dgram, K_a), K_id) /\ IsId(Sub(dgram, K_a), K_info_hash)
    /\ Has(dgram, K_r)
    /\ result = Err("MissingRequiredField")

\* The 20-byte arguments method q needs in the a dictionary.
RequiredArguments(q) ==
    IF q = M_find_node THEN {K_id, K_target}
    ELSE IF q = M_get_peers THEN {K_id, K_info_hash}
    ELSE {K_id}

\* C7: for a query (y = q), a required 20-byte argument (id, target for find_node,
\* info_hash for get_peers) that is absent from the a dictionary, or is a string
\* of another length than 20, makes the result MissingRequiredField.
C7_ArgumentsOfTwentyBytes ==
    (/\ Decoded /\ WellShaped(dgram)
     /\ IsStrOf(dgram, K_y, K_q) /\ Has(dgram, K_q)
     /\ \E k \in RequiredArguments(Get(dgram, K_q).b) : ~IsId(Sub(dgram, K_a), k))
    => result = Err("MissingRequiredField")

\* C8: a known key present with the wrong Bencode shape makes the result
\* RequiredFieldOfWrongType, other required fields missing or not.
C8_WrongShapeRejected ==
    (Decoded /\ WrongShape(dgram)) => result = Err("RequiredFieldOfWrongType")

\* A datagram without t and without q whose a dictionary has an integer as id.
C8_Witness ==
    /\ Decoded /\ ~Has(dgram, K_t) /\ ~Has(dgram, K_q)
    /\ Has(Sub(dgram, K_a), K_id) /\ ~IsStr(Sub(dgram, K_a), K_id)
    /\ result = Err("RequiredFieldOfWrongType")

\* C9: a query whose method name is announce_peer never decodes to Query(GetPeers).
C9_AnnouncePeerOwnKind ==
    (Decoded /\ IsStrOf(dgram, K_q, M_announce_peer))
    => ~(/\ result.st = "ok"
         /\ result.msg.message.type = "Query"
         /\ result.msg.message.variant = "GetPeers")


\* C11: from_bencode is total: whatever bytes the socket hands over, the decoder
\* returns a message or an error and never aborts.
C11_NeverAborts ==
    pc = "decoded" => result.st \in {"ok", "err"}


\* ------------------------------------------------------------ encodings.rs
\* Texts are the bytes of a &str; a decoded hash is Ok with its bytes.  magnet.rs
\* holds a copy of each of these functions (its error type has variants of the
\* same names), which the magnet parser calls.

OkBytes(bytes) == [st |-> "ok", bytes |-> bytes]

\* Bit n (0 = lowest) of the u8 x.
Bit(x, n) == (x \div (2 ^ n)) % 2

\* a | b on u8.
Or8(a, b) ==
    LET or[n \in 0..8] ==
            IF n = 8 THEN 0
            ELSE (IF Bit(a, n) = 1 \/ Bit(b, n) = 1 THEN 2 ^ n ELSE 0) + or[n + 1]
    IN  or[0]

\* hex_to_nibble: Ok is the value 0..15, -1 is Err(InvalidHashCharacter).
hex_to_nibble_LowerOnly(h) ==
    IF h >= 48 /\ h <= 57 THEN h - 48
    ELSE IF h >= 97 /\ h <= 102 THEN h - 97 + 10
    ELSE -1

hex_to_nibble(h) ==
    IF h >= 48 /\ h <= 57 THEN h - 48
    ELSE IF h >= 97 /\ h <= 102 THEN h - 97 + 10
    ELSE IF h >= 65 /\ h <= 70 THEN h - 65 + 10
    ELSE -1

\* hex_to_byte: (nibble(b1) << 4) | nibble(b2) on u8, -1 is Err(InvalidHashCharacter).
hex_to_byte(b1, b2) ==
    LET n1 == hex_to_nibble(b1)
        n2 == hex_to_nibble(b2)
    IN  IF n1 = -1 \/ n2 = -1 THEN -1 ELSE Or8((n1 * 16) % 256, n2)

\* bytes_from_hex::<LEN>(hex)
bytes_from_hex(LEN, hex) ==
    IF Len(hex) # LEN * 2 THEN Err("InvalidHashLength")
    ELSE LET out == [i \in 1..LEN |-> hex_to_byte(hex[2 * i - 1], hex[2 * i])] IN
         IF \E i \in 1..LEN : out[i] = -1 THEN Err("InvalidHashCharacter")
         ELSE OkBytes(out)

\* base32_decode_char: Ok is the value, -1 is Err(InvalidHashCharacter).  The upper
\* ends of the letter ranges are 0x87 and 0x67 in the source.
base32_decode_char_UpperOnly(h) ==
    IF h >= 65 /\ h <= 103 THEN h - 65
    ELSE IF h >= 50 /\ h <= 55 THEN h - 50 + 26
    ELSE -1

base32_decode_char(h) ==
    IF h >= 97 /\ h <= 135 THEN h - 97
    ELSE IF h >= 65 /\ h <= 103 THEN h - 65
    ELSE IF h >= 50 /\ h <= 55 THEN h - 50 + 26
    ELSE -1

\* destructure_byte: the part of the character's value that falls into the output
\* byte it starts in (this) and the part that falls into the following one (next),
\* both u8: bits shifted out of the u8 are lost, checked_shl gives None (here 0)
\* when the shift is 8 or more.
destructure_byte(offset_in_chunk, byte) ==
    LET output_mod == (offset_in_chunk * 5) % 8
        val        == base32_decode_char(byte)
        shl        == 3 + (8 - output_mod)
    IN  IF val = -1 THEN Err("InvalidHashCharacter")
        ELSE [st   |-> "ok",
              this |-> ((val * 8) % 256) \div (2 ^ output_mod),
              next |-> IF shl >= 8 THEN 0 ELSE (val * (2 ^ shl)) % 256]

\* The length without the padding.
Base32Len_Unpadded(LEN) == (LEN * 8 + 4) \div 5

\* bytes_from_base32, the length a text must have: 8 characters for every 5 bytes
\* or part of 5 bytes.
Base32Len(LEN) == ((LEN + 4) \div 5) * 8

\* The tail check of bytes_from_base32 left out: the bits behind the last byte are
\* dropped.
TailCheck_Lenient(next) == TRUE

\* bytes_from_base32, the last characters that hold data: what falls behind the
\* last output byte has to be zero.
TailCheck(next) == next = 0

\* bytes_from_base32::<LEN>(enc), LEN >= 1.  run[i] is the state after the first i
\* characters: the output so far, or the error returned.  An index outside the
\* output array is a panic.
bytes_from_base32(LEN, enc) ==
    IF Len(enc) # Base32Len(LEN) THEN Err("InvalidHashLength")
    ELSE
    LET first_pad       == (LEN * 8 + 4) \div 5
        last_byte_start == ((LEN - 1) * 8 + 4) \div 5
        run[n \in 0..Len(enc)] ==
            IF n = 0 THEN OkBytes([k \in 1..LEN |-> 0])
            ELSE
            LET out == run[n - 1]
                i   == n - 1
                d   == destructure_byte(i % 8, enc[i + 1])
                output_location == (i * 5) \div 8
            IN  IF out.st # "ok" THEN out
                ELSE IF i < last_byte_start THEN
                    IF d.st # "ok" THEN d
                    ELSE IF output_location + 1 >= LEN THEN Panic
                    ELSE OkBytes([out.bytes EXCEPT
                                    ![output_location + 1] = Or8(@, d.this),
                                    ![output_location + 2] = Or8(@, d.next)])
                ELSE IF i < first_pad THEN
                    IF d.st # "ok" THEN d
                    ELSE IF output_location >= LEN THEN Panic
                    ELSE IF ~TailCheck(d.next) THEN Err("InvalidHashCharacter")
                    ELSE OkBytes([out.bytes EXCEPT
                                    ![output_location + 1] = Or8(@, d.this)])
                ELSE IF enc[i + 1] # 61 THEN Err("InvalidHashCharacter")
                ELSE out
    IN  run[Len(enc)]

\* --------------------------------------------------------------- magnet.rs

\* str::split on the byte c: the pieces between its occurrences.
RECURSIVE split(_, _)
split(s, c) ==
    LET k == FindByte(s, 1, c) IN
    IF k = 0 THEN <<s>>
    ELSE <<SubSeq(s, 1, k - 1)>> \o split(SubSeq(s, k + 1, Len(s)), c)

\* value.replace('+', " ")
replace_plus(value) == [i \in 1..Len(value) |-> IF value[i] = 43 THEN 32 ELSE value[i]]

\* The loop of uri_decode_value with the bytes behind an escape left out.
RECURSIVE decode_segments_DropRest(_, _)
decode_segments_DropRest(segments, out) ==
    IF segments = <<>> THEN OkBytes(out)
    ELSE LET segment == Head(segments) IN
         IF Len(segment) < 2 THEN Err("InvalidUseOfReservedChar")
         ELSE LET byte == hex_to_byte(segment[1], segment[2]) IN
              IF byte = -1 THEN Err("InvalidHashCharacter")
              ELSE decode_segments_DropRest(Tail(segments), out \o <<byte>>)

\* The loop of uri_decode_value over the segments behind each '%': ret (here out) with the
\* decoded bytes appended, or the error returned.
RECURSIVE decode_segments(_, _)
decode_segments(segments, out) ==
    IF segments = <<>> THEN OkBytes(out)
    ELSE LET segment == Head(segments) IN
         IF Len(segment) < 2 THEN Err("InvalidUseOfReservedChar")
         ELSE LET byte == hex_to_byte(segment[1], segment[2]) IN
              IF byte = -1 THEN Err("InvalidHashCharacter")
              ELSE decode_segments(Tail(segments),
                                   out \o <<byte>> \o SubSeq(segment, 3, Len(segment)))

\* Ok(Cow::Owned(s)) and Ok(Cow::Borrowed(s))
OkCow(owned, s) == [st |-> "ok", owned |-> owned, s |-> s]

\* '#', '?' or '&' occurs in value.
HasReserved(value) == \E i \in 1..Len(value) : value[i] \in {35, 63, 38}

\* uri_decode_value with the + replaced after the escapes are decoded.
uri_decode_value_PlusLast(value) ==
    IF HasReserved(value) THEN Err("InvalidUseOfReservedChar")
    ELSE LET first_percent == FindByte(value, 1, 37) IN
         IF first_percent = 0
         THEN OkCow(FindByte(value, 1, 43) # 0, replace_plus(value))
         ELSE LET out == decode_segments(
                             split(SubSeq(value, first_percent + 1, Len(value)), 37),
                             SubSeq(value, 1, first_percent - 1))
              IN  IF out.st # "ok" THEN out
                  ELSE IF ~IsUtf8(out.bytes) THEN Err("NotImplemented")
                  ELSE OkCow(TRUE, replace_plus(out.bytes))

\* uri_decode_value(value)
uri_decode_value(value) ==
    IF HasReserved(value) THEN Err("InvalidUseOfReservedChar")
    ELSE LET plus == FindByte(value, 1, 43) # 0
             s    == IF plus THEN replace_plus(value) ELSE value
             first_percent == FindByte(s, 1, 37)
         IN  IF first_percent = 0 THEN OkCow(plus, s)
             ELSE LET out == decode_segments(
                                 split(SubSeq(s, first_percent + 1, Len(s)), 37),
                                 SubSeq(s, 1, first_percent - 1))
                  IN  IF out.st # "ok" THEN out
                      ELSE IF ~IsUtf8(out.bytes) THEN Err("NotImplemented")
                      ELSE OkCow(TRUE, out.bytes)

\* s.starts_with(prefix)
starts_with(s, prefix) == Len(s) >= Len(prefix) /\ SubSeq(s, 1, Len(prefix)) = prefix

\* &s[n..], n counted from 0.
SliceFrom(s, n) == SubSeq(s, n + 1, Len(s))

\* The texts of the parser: "urn:sha1:", "urn:md5:", "urn:btih:", "magnet:", "?",
\* "xt", "xt.", "dn", "dn.", "1".
T_urn_sha1 == <<117, 114, 110, 58, 115, 104, 97, 49, 58>>
T_urn_md5 == <<117, 114, 110, 58, 109, 100, 53, 58>>
T_urn_btih == <<117, 114, 110, 58, 98, 116, 105, 104, 58>>
T_magnet == <<109, 97, 103, 110, 101, 116, 58>>
T_question == <<63>>
T_xt == <<120, 116>>
T_xt_dot == <<120, 116, 46>>
T_dn == <<100, 110>>
T_dn_dot == <<100, 110, 46>>
T_one == <<49>>

\* The lengths of the hashes: [u8; 20] for SHA1 and BTIH, [u8; 16] for MD5, and the
\* length of "urn:btih:" with 40 hex digits.
Sha1Len == 20
Md5Len == 16
BtihHexUrnLen == 49

\* MagnetHash::SHA1, MD5, BTIH, INVALID
MagnetHash(tag, bytes) == [tag |-> tag, bytes |-> bytes]
INVALID == [tag |-> "INVALID", bytes |-> <<>>]

\* Ok(MagnetHash::tag(decoded?))
HashOf(tag, decoded) ==
    IF decoded.st # "ok" THEN decoded
    ELSE [st |-> "ok", hash |-> MagnetHash(tag, decoded.bytes)]

\* MagnetHash::from_str with urn:btih: always read as base32.
MagnetHash_from_str_BtihBase32(s) ==
    IF starts_with(s, T_urn_sha1)
    THEN HashOf("SHA1", bytes_from_base32(Sha1Len, SliceFrom(s, 9)))
    ELSE IF starts_with(s, T_urn_md5)
    THEN HashOf("MD5", bytes_from_hex(Md5Len, SliceFrom(s, 8)))
    ELSE IF starts_with(s, T_urn_btih)
    THEN HashOf("BTIH", bytes_from_base32(Sha1Len, SliceFrom(s, 9)))
    ELSE Err("UnknownHashFunction")

\* MagnetHash::from_str(s)
MagnetHash_from_str(s) ==
    IF starts_with(s, T_urn_sha1)
    THEN HashOf("SHA1", bytes_from_base32(Sha1Len, SliceFrom(s, 9)))
    ELSE IF starts_with(s, T_urn_md5)
    THEN HashOf("MD5", bytes_from_hex(Md5Len, SliceFrom(s, 8)))
    ELSE IF starts_with(s, T_urn_btih)
    THEN IF Len(s) = BtihHexUrnLen
         THEN HashOf("BTIH", bytes_from_hex(Sha1Len, SliceFrom(s, 9)))
         ELSE HashOf("BTIH", bytes_from_base32(Sha1Len, SliceFrom(s, 9)))
    ELSE Err("UnknownHashFunction")

\* MagnetFile { hash, display_name }; Default is INVALID and "".
MagnetFile(hash, display_name) == [hash |-> hash, display_name |-> display_name]

\* The HashMap files with file_key set to file.
Inserted(files, file_key, file) ==
    [k \in DOMAIN files \cup {file_key} |-> IF k = file_key THEN file ELSE files[k]]

\* The file index of a key: "1" for xt and dn, the text behind "xt." or "dn.".
FileKey(key) == IF Len(key) < 3 THEN T_one ELSE SliceFrom(key, 3)

\* MagnetFiles::from_str, a dn key whose file is not in the map yet: a file is
\* made, given the name, and dropped at the end of the arm; the map is as before.
dn_without_file(files, file_key, value) == files

\* MagnetFiles::from_str, the body of the loop over the pairs: files afterwards, or
\* the error returned.
on_pair(serialised_pair, files) ==
    LET split_at == FindByte(serialised_pair, 1, 61) IN
    IF split_at = 0 THEN [st |-> "ok", files |-> files]
    ELSE
    LET key      == SubSeq(serialised_pair, 1, split_at - 1)
        value    == uri_decode_value(SliceFrom(serialised_pair, split_at))
        file_key == FileKey(key)
    IN  IF value.st # "ok" THEN value
        ELSE IF key = T_xt \/ starts_with(key, T_xt_dot) THEN
            LET hash == MagnetHash_from_str(value.s) IN
            IF hash.st # "ok" THEN hash
            ELSE IF file_key \in DOMAIN files
                 THEN [st |-> "ok", files |-> [files EXCEPT ![file_key].hash = hash.hash]]
                 ELSE [st |-> "ok",
                       files |-> Inserted(files, file_key, MagnetFile(hash.hash, <<>>))]
        ELSE IF key = T_dn \/ starts_with(key, T_dn_dot) THEN
            IF file_key \in DOMAIN files
            THEN [st |-> "ok", files |-> [files EXCEPT ![file_key].display_name = value.s]]
            ELSE [st |-> "ok", files |-> dn_without_file(files, file_key, value.s)]
        ELSE [st |-> "ok", files |-> files]

\* MagnetFiles::from_str, the loop over the pairs.
RECURSIVE for_pairs(_, _)
for_pairs(pairs, files) ==
    IF pairs = <<>> THEN [st |-> "ok", files |-> files]
    ELSE LET after == on_pair(Head(pairs), files) IN
         IF after.st # "ok" THEN after ELSE for_pairs(Tail(pairs), after.files)

\* MagnetFiles::from_str(s) up to the HashMap files, or the error returned.
MagnetFiles_from_str(s) ==
    IF ~starts_with(s, T_magnet) THEN Err("InvalidURIScheme")
    ELSE IF ~starts_with(SliceFrom(s, 7), T_question) THEN Err("InvalidStartCharacter")
    ELSE for_pairs(split(SliceFrom(s, 8), 38), <<>>)

\* files.into_iter().map(|kv_pair| kv_pair.1).collect(): the files in the order the
\* HashMap yields them, which is any order.
Collected(files) ==
    LET n == Cardinality(DOMAIN files) IN
    {[i \in 1..n |-> files[order[i]]] :
        order \in {o \in [1..n -> DOMAIN files] : \A i, j \in 1..n : o[i] = o[j] => i = j}}

\* parse(s): the outcomes it can have.
parse(s) ==
    LET r == MagnetFiles_from_str(s) IN
    IF r.st # "ok" THEN {r}
    ELSE {[st |-> "ok", files |-> v] : v \in Collected(r.files)}

\* ------------------------------------------------------------------ main.rs

\* a & b on u8.
And8(a, b) ==
    LET and[n \in 0..8] ==
            IF n = 8 THEN 0
            ELSE (IF Bit(a, n) = 1 /\ Bit(b, n) = 1 THEN 2 ^ n ELSE 0) + and[n + 1]
    IN  and[0]

\* a ^ b on 16 bits.
Xor16(a, b) ==
    LET xor[n \in 0..16] ==
            IF n = 16 THEN 0
            ELSE (IF Bit(a, n) # Bit(b, n) THEN 2 ^ n ELSE 0) + xor[n + 1]
    IN  xor[0]

\* A u32 as its two halves of 16 bits: the value is hi * 2^16 + lo.
U32(hi, lo) == [hi |-> hi, lo |-> lo]

\* One bit of the CRC: the register goes one place to the right and, when the
\* bit that left it was 1, the reflected Castagnoli polynomial 0x82F63B78 is
\* xor-ed in.
CrcShift(c) ==
    LET shifted == U32(c.hi \div 2, (c.lo \div 2) + 32768 * (c.hi % 2)) IN
    IF c.lo % 2 = 1 THEN U32(Xor16(shifted.hi, 33526), Xor16(shifted.lo, 15224))
    ELSE shifted

\* n bits of the CRC; a register of zeros stays as it is.
RECURSIVE CrcTimes(_, _)
CrcTimes(c, n) == IF n = 0 \/ c = U32(0, 0) THEN c ELSE CrcTimes(CrcShift(c), n - 1)

\* One byte of the CRC: the byte is xor-ed into the low end of the register,
\* which is then shifted eight times.
CrcByte(c, b) == CrcTimes(U32(c.hi, Xor16(c.lo, b)), 8)

\* The register c after the bytes of data from the k-th on.
RECURSIVE CrcFrom(_, _, _)
CrcFrom(c, data, k) ==
    IF k > Len(data) THEN c ELSE CrcFrom(CrcByte(c, data[k]), data, k + 1)

\* crc32c::crc32c(data): CRC-32C of the bytes, the register starting at
\* 0xFFFFFFFF and complemented at the end.
crc32c(data) ==
    LET reg == CrcFrom(U32(65535, 65535), data, 1)
    IN  U32(Xor16(reg.hi, 65535), Xor16(reg.lo, 65535))

\* The low eight bits of c >> n, for n = 8, 16 and 24.
ShrByte(c, n) ==
    CASE n = 24 -> c.hi \div 256
      [] n = 16 -> c.hi % 256
      [] n = 8  -> c.lo \div 256

\* node_id without the random bits in the hashed address.
node_id_NoSeedBits(ip, seed) ==
    LET mask == <<3, 15, 63, 255>>
        hash_input == [i \in 1..4 |-> And8(mask[i], ip[i])]
        crc == crc32c(hash_input)
    IN  [seed EXCEPT ![1] = And8(ShrByte(crc, 24), 255),
                     ![2] = And8(ShrByte(crc, 16), 255),
                     ![3] = Or8(And8(ShrByte(crc, 8), 248), And8(seed[3], 7))]

\* node_id(ip), seed being the 20 bytes that rand_buff::<20>() returned: out
\* starts as the seed and out[0], out[1], out[2] are written from the CRC.
node_id(ip, seed) ==
    LET r == And8(seed[20], 7)
        mask == <<3, 15, 63, 255>>
        anded == [i \in 1..4 |-> And8(mask[i], ip[i])]
        hash_input == [anded EXCEPT ![1] = Or8(anded[1], (r * 32) % 256)]
        crc == crc32c(hash_input)
    IN  [seed EXCEPT ![1] = And8(ShrByte(crc, 24), 255),
                     ![2] = And8(ShrByte(crc, 16), 255),
                     ![3] = Or8(And8(ShrByte(crc, 8), 248), And8(seed[3], 7))]

\* ------------------------------------------------------- the library calls
\* The parsing functions of the crate are pure: a call is one step from the
\* arguments to the returned value.  SpecCalls is the program calling them one
\* after the other on texts and buffers drawn from bounded sets.

\* The variables of the datagram exchange, which no library call touches.
exchange == <<pc, source, msg, dgram, wire, result, base, added, edited>>

\* The buffers handed to eat_str hold at most MaxBufLen bytes behind the length.
MaxBufLen == 3

\* The bytes before the colon: decimal numbers (0, 1, 2, 3, 4, 5, 12, 01, 007), the
\* signed +2 and -1, and texts that are no number (empty, x, 1a, a blank and 1, the
\* byte FF).
LenPrefixes ==
    {<<48>>, <<49>>, <<50>>, <<51>>, <<52>>, <<53>>, <<49,50>>, <<48,49>>, <<48,48,55>>,
     <<43,50>>, <<45,49>>, <<>>, <<120>>, <<49,97>>, <<32,49>>, <<255>>}

RECURSIVE SeqsUpTo(_, _)
\* Every sequence over the set S of at most n elements.
SeqsUpTo(S, n) ==
    IF n = 0 THEN {<<>>}
    ELSE LET shorter == SeqsUpTo(S, n - 1) IN
         shorter \cup {<<x>> \o t : x \in S, t \in {u \in shorter : Len(u) = n - 1}}

\* The bytes behind the colon: a, a colon, the digit 1.
Payloads == SeqsUpTo({97, 58, 49}, MaxBufLen)

\* The buffers of eat_str: a prefix, a colon and a payload, or a prefix alone.
StrBuffers ==
    {l \o <<58>> \o b : l \in LenPrefixes, b \in Payloads} \cup LenPrefixes

\* Hex texts of every length up to MaxTextLen are tried, and the hex texts of the
\* arrays of up to MaxHexLen bytes with one character replaced.
MaxTextLen == 3
MaxHexLen == 2

\* The characters of hex texts: the ends of 0-9, a-f and A-F and their neighbours
\* / : ` g @ G.
HexChars == {48, 57, 47, 58, 97, 102, 96, 103, 65, 70, 64, 71}

\* The bytes of the arrays that are encoded: 00, FF, A5, 32.
SampleBytes == {0, 255, 165, 50}

\* The arrays of exactly n bytes.
Arrays(n) == {x \in SeqsUpTo(SampleBytes, n) : Len(x) = n}

\* The lower-case hex digit of the value v, and the hex text of the array x.
HexDigit(v) == IF v < 10 THEN 48 + v ELSE 97 + (v - 10)
Hex(x) == [i \in 1..(2 * Len(x)) |->
              IF i % 2 = 1 THEN HexDigit(x[(i + 1) \div 2] \div 16)
              ELSE HexDigit(x[i \div 2] % 16)]

\* The text s with its i-th character replaced by c.
Replace(s, i, c) == [s EXCEPT ![i] = c]

HexTexts ==
    SeqsUpTo(HexChars, MaxTextLen)
    \cup UNION {{Replace(Hex(x), i, c) : i \in 1..(2 * Len(x)), c \in HexChars} :
                  x \in SeqsUpTo(SampleBytes, MaxHexLen)}

\* Hashes of 1..MaxHashLen bytes are decoded from base32: 5 bytes fill the 8
\* characters of one group, fewer leave 6, 4, 3 or 1 characters of padding.
MaxHashLen == 5

\* Bit k (1 = first, the highest of the first byte) of the array x, 0 behind its end.
BitAt(x, k) == IF k > 8 * Len(x) THEN 0 ELSE Bit(x[((k - 1) \div 8) + 1], 7 - ((k - 1) % 8))

\* The RFC 4648 alphabet: A-Z for 0..25, 2-7 for 26..31, in upper case or (lower)
\* with the letters in lower case.
Base32Char(v, lower) == IF v < 26 THEN (IF lower THEN 97 ELSE 65) + v ELSE 50 + (v - 26)

\* The padded RFC 4648 base32 text of the array x: its bits in groups of five, the
\* last group filled with zeros, then = up to a multiple of 8 characters.
Base32(x, lower) ==
    LET data == (8 * Len(x) + 4) \div 5
        full == ((Len(x) + 4) \div 5) * 8
    IN  [c \in 1..full |->
            IF c > data THEN 61
            ELSE Base32Char(16 * BitAt(x, 5 * c - 4) + 8 * BitAt(x, 5 * c - 3)
                            + 4 * BitAt(x, 5 * c - 2) + 2 * BitAt(x, 5 * c - 1)
                            + BitAt(x, 5 * c), lower)]

\* The characters of base32 texts: the ends of A-Z, a-z and 2-7, the padding =, a
\* letter with its low bits set (B, b), and characters outside the alphabet:
\* @ [ _ ` { ~ 0 1 8 9.
Base32Chars == {65, 90, 97, 122, 50, 55, 61, 66, 98, 64, 91, 95, 96, 123, 126, 48, 49, 56, 57}

\* The arrays whose texts are altered: 1..MaxHashLen times the byte FF or 32.
AlteredArrays == {Rep(b, n) : b \in {255, 50}, n \in 1..MaxHashLen}

\* Base32 texts: the text of an array with one character replaced, with its last
\* character dropped or with one more character, and every short text.
Base32Texts ==
    UNION {{Replace(Base32(x, FALSE), i, c) : i \in 1..Len(Base32(x, FALSE)), c \in Base32Chars}
            \cup {SubSeq(Base32(x, FALSE), 1, Len(Base32(x, FALSE)) - 1)}
            \cup {Base32(x, FALSE) \o <<c>> : c \in {61, 65, 64}} :
           x \in AlteredArrays}
    \cup SeqsUpTo({65, 61, 49}, MaxTextLen)

\* Values are made of at most MaxTextLen characters or of at most MaxTokens pieces.
MaxTokens == 3

\* The characters of values: a + % 2 B b C z # ? & and the two-byte character
\* e-acute.
UriChars == {<<97>>, <<43>>, <<37>>, <<50>>, <<66>>, <<98>>, <<67>>, <<122>>,
             <<35>>, <<63>>, <<38>>, <<195, 169>>}

\* The pieces of values: %2B %2b (a +), %C2 %B2 (together the character U+00B2,
\* apart no UTF-8), %bz %z2 (no hex), %2 and % (cut short), % before e-acute, a, +
\* and e-acute.
UriPieces == {<<37,50,66>>, <<37,50,98>>, <<37,67,50>>, <<37,66,50>>, <<37,98,122>>,
              <<37,122,50>>, <<37,50>>, <<37>>, <<37,195,169>>, <<97>>, <<43>>, <<195,169>>}

UriValues ==
    {Concat(t) : t \in SeqsUpTo(UriChars, MaxTextLen)}
    \cup {Concat(t) : t \in SeqsUpTo(UriPieces, MaxTokens)}

\* A URI holds at most MaxPairs pairs.
MaxPairs == 3

\* The 16 bytes of an MD5 hash.
Md5A == SubSeq(IdA, 1, Md5Len)

\* A pair of a URI as it is written (text), with what it stands for: the kind of
\* its key (xt, dn, other, or none for a pair without =), its file index, the hash
\* or the name it gives, and whether its value is well-formed.
Pair(text, kind, index, hash, name, good) ==
    [text |-> text, kind |-> kind, index |-> index, hash |-> hash, name |-> name,
     good |-> good]

XtPair(key, index, urn, digits, hash) ==
    Pair(key \o <<61>> \o urn \o digits, "xt", index, hash, <<>>, TRUE)

\* xt=urn:btih:<40 hex digits>, xt.2=urn:btih:<base32>, xt.2=urn:md5:<32 hex
\* digits>, xt.3=urn:sha1:<base32>; dn=a+b, dn.2=%2B, dn.3=c; the keys tr, ws and
\* x.pe with the values x, %zz, %C2 and %2; a pair without =; xt=urn:md5:c1 and
\* xt.4=urn:foo:1.
PairOptions ==
    {XtPair(T_xt, T_one, T_urn_btih, Hex(IdA), MagnetHash("BTIH", IdA)),
     XtPair(<<120, 116, 46, 50>>, <<50>>, T_urn_btih, Base32(IdB, FALSE), MagnetHash("BTIH", IdB)),
     XtPair(<<120, 116, 46, 50>>, <<50>>, T_urn_md5, Hex(Md5A), MagnetHash("MD5", Md5A)),
     XtPair(<<120, 116, 46, 51>>, <<51>>, T_urn_sha1, Base32(IdB, TRUE), MagnetHash("SHA1", IdB)),
     Pair(<<100, 110, 61, 97, 43, 98>>, "dn", T_one, INVALID, <<97, 32, 98>>, TRUE),
     Pair(<<100, 110, 46, 50, 61, 37, 50, 66>>, "dn", <<50>>, INVALID, <<43>>, TRUE),
     Pair(<<100, 110, 46, 51, 61, 99>>, "dn", <<51>>, INVALID, <<99>>, TRUE),
     Pair(<<116, 114, 61, 120>>, "other", <<>>, INVALID, <<>>, TRUE),
     Pair(<<116, 114, 61, 37, 122, 122>>, "other", <<>>, INVALID, <<>>, FALSE),
     Pair(<<119, 115, 61, 37, 67, 50>>, "other", <<>>, INVALID, <<>>, FALSE),
     Pair(<<120, 46, 112, 101, 61, 37, 50>>, "other", <<>>, INVALID, <<>>, FALSE),
     Pair(<<102, 108, 97, 103>>, "none", <<>>, INVALID, <<>>, TRUE),
     Pair(<<120, 116, 61, 117, 114, 110, 58, 109, 100, 53, 58, 99, 49>>, "xt", T_one, INVALID, <<>>, FALSE),
     Pair(<<120, 116, 46, 52, 61, 117, 114, 110, 58, 102, 111, 111, 58, 49>>, "xt", <<52>>, INVALID, <<>>, FALSE)}

\* The URI of the pairs: magnet:? and the pairs with & between them.
RECURSIVE Joined(_)
Joined(pairs) ==
    IF pairs = <<>> THEN <<>>
    ELSE IF Len(pairs) = 1 THEN pairs[1].text
    ELSE pairs[1].text \o <<38>> \o Joined(Tail(pairs))

MagnetUri(pairs) == T_magnet \o T_question \o Joined(pairs)

\* Texts that are no magnet URI: the empty text, magnet:, magnet:xt=1, magnet:&,
\* http:?, Magnet:?.
OtherUris == {<<>>, T_magnet, <<109, 97, 103, 110, 101, 116, 58, 120, 116, 61, 49>>, <<109, 97, 103, 110, 101, 116, 58, 38>>, <<104, 116, 116, 112, 58, 63>>, <<77, 97, 103, 110, 101, 116, 58, 63>>}

\* Bencode { buffer }.eat_str()
CallEatStr ==
    /\ call = NoCall
    /\ \E buffer \in StrBuffers :
          /\ call' = [fn |-> "eat_str", buffer |-> buffer]
          /\ ret' = eat_str(buffer, 1)
    /\ UNCHANGED exchange

\* bytes_from_hex::<LEN>(hex)
CallBytesFromHex ==
    /\ call = NoCall
    /\ \E LEN \in 0..MaxHexLen, hex \in HexTexts :
          /\ call' = [fn |-> "bytes_from_hex", LEN |-> LEN, text |-> hex]
          /\ ret' = bytes_from_hex(LEN, hex)
    /\ UNCHANGED exchange

\* bytes_from_hex::<LEN>(hex) on the hex text of an array.
CallBytesFromHexOf ==
    /\ call = NoCall
    /\ \E x \in SeqsUpTo(SampleBytes, MaxHashLen) :
          /\ call' = [fn |-> "bytes_from_hex", LEN |-> Len(x), text |-> Hex(x), of |-> x]
          /\ ret' = bytes_from_hex(Len(x), Hex(x))
    /\ UNCHANGED exchange

\* bytes_from_base32::<LEN>(enc) on the base32 text of an array, in either case.
CallBytesFromBase32Of ==
    /\ call = NoCall
    /\ \E x \in SeqsUpTo(SampleBytes, MaxHashLen) \ {<<>>}, lower \in BOOLEAN :
          /\ call' = [fn |-> "bytes_from_base32", LEN |-> Len(x),
                       text |-> Base32(x, lower), of |-> x]
          /\ ret' = bytes_from_base32(Len(x), Base32(x, lower))
    /\ UNCHANGED exchange

\* bytes_from_base32::<LEN>(enc) on any text.
CallBytesFromBase32 ==
    /\ call = NoCall
    /\ \E LEN \in 1..MaxHashLen, enc \in Base32Texts :
          /\ call' = [fn |-> "bytes_from_base32", LEN |-> LEN, text |-> enc]
          /\ ret' = bytes_from_base32(LEN, enc)
    /\ UNCHANGED exchange

\* uri_decode_value(value)
CallUriDecodeValue ==
    /\ call = NoCall
    /\ \E value \in UriValues :
          /\ call' = [fn |-> "uri_decode_value", text |-> value]
          /\ ret' = uri_decode_value(value)
    /\ UNCHANGED exchange

\* parse(s) on a text that is no magnet URI.
CallParseOther ==
    /\ call = NoCall
    /\ \E s \in OtherUris :
          /\ call' = [fn |-> "parse", text |-> s]
          /\ ret' \in parse(s)
    /\ UNCHANGED exchange

\* The hashes that are written as URNs: the ids of the tests, 20 bytes 00 and 20
\* bytes FF, and the first 16 bytes of each for MD5.
Hashes20 == {IdA, IdB, Rep(0, Sha1Len), Rep(255, Sha1Len)}
Hashes16 == {SubSeq(x, 1, Md5Len) : x \in Hashes20}

\* The hex text with its letters in upper case.
Upper(text) == [i \in 1..Len(text) |-> IF text[i] >= 97 /\ text[i] <= 122 THEN text[i] - 32
                                          ELSE text[i]]

\* The four forms of a hash URN, each with the variant it gives, the length of its
\* hash and its encoding.
UrnForms ==
    {[urn |-> T_urn_sha1, tag |-> "SHA1", len |-> Sha1Len, enc |-> "base32"],
     [urn |-> T_urn_md5,  tag |-> "MD5",  len |-> Md5Len,  enc |-> "hex"],
     [urn |-> T_urn_btih, tag |-> "BTIH", len |-> Sha1Len, enc |-> "hex"],
     [urn |-> T_urn_btih, tag |-> "BTIH", len |-> Sha1Len, enc |-> "base32"]}

\* The texts of the hash x in the encoding enc: lower and upper case.
Encoded(enc, x) ==
    IF enc = "hex" THEN {Hex(x), Upper(Hex(x))} ELSE {Base32(x, FALSE), Base32(x, TRUE)}

\* What stands before the rest of a URN: the three prefixes, the same in upper
\* case or cut short, other functions, nothing.
UrnPrefixes ==
    {T_urn_sha1, T_urn_md5, T_urn_btih, Upper(T_urn_md5), <<117, 114, 110, 58, 98, 116, 105, 104>>,
     <<117, 114, 110, 58, 115, 104, 97, 50, 53, 54, 58>>, <<117, 114, 110, 58>>, <<109, 100, 53, 58>>, <<32, 117, 114, 110, 58, 115, 104, 97, 49, 58>>, <<>>}

\* What stands behind it: the texts of a hash, such a text one character shorter
\* or longer or with its first character replaced by g, [ or 1, the padded base32
\* text of 16 bytes, c1, nothing.
UrnRests ==
    LET texts == UNION {Encoded("hex", x) \cup Encoded("base32", x) : x \in {IdA, Rep(255, Sha1Len)}}
                 \cup {Hex(SubSeq(IdA, 1, Md5Len)), Base32(SubSeq(IdA, 1, Md5Len), FALSE)}
    IN  texts
        \cup {SubSeq(t, 1, Len(t) - 1) : t \in texts}
        \cup {t \o <<65>> : t \in texts}
        \cup {Replace(t, 1, c) : t \in texts, c \in {103, 91, 49}}
        \cup {<<99, 49>>, <<>>}

\* MagnetHash::from_str(s) on the URN of a hash in one of the four forms.
CallHashFromStrOf ==
    /\ call = NoCall
    /\ \E form \in UrnForms :
          \E x \in IF form.len = Md5Len THEN Hashes16 ELSE Hashes20 :
            \E text \in Encoded(form.enc, x) :
              /\ call' = [fn |-> "MagnetHash::from_str", text |-> form.urn \o text,
                           hash |-> MagnetHash(form.tag, x)]
              /\ ret' = MagnetHash_from_str(form.urn \o text)
    /\ UNCHANGED exchange

\* MagnetHash::from_str(s) on any text.
CallHashFromStr ==
    /\ call = NoCall
    /\ \E urn \in UrnPrefixes, rest \in UrnRests :
          /\ call' = [fn |-> "MagnetHash::from_str", text |-> urn \o rest]
          /\ ret' = MagnetHash_from_str(urn \o rest)
    /\ UNCHANGED exchange

\* Pairs whose values hold no + % # ? &: xt with urn:btih: and 40 hex digits, xt.2
\* with urn:md5: and 32 hex digits, xt with urn:md5: and 40 hex digits (the URI
\* of tests::file_from_str), dn with e-acute=c, dn.2 with c, tr with x.
PlainPairs ==
    {[key |-> T_xt, value |-> T_urn_btih \o Hex(IdA)],
     [key |-> <<120, 116, 46, 50>>, value |-> T_urn_md5 \o Hex(Md5A)],
     [key |-> T_xt, value |-> T_urn_md5 \o Hex(IdA)],
     [key |-> T_dn, value |-> <<195, 169, 61, 99>>],
     [key |-> <<100, 110, 46, 50>>, value |-> <<99>>],
     [key |-> <<116, 114>>, value |-> <<120>>]}

\* The ways of escaping: the colons, the first byte, every tenth byte (these of
\* ASCII characters), or the bytes of the characters outside ASCII.
EscapeModes == {"colons", "first", "tenth", "nonascii"}

Escaped(mode, value, i) ==
    CASE mode = "colons"   -> value[i] = 58
      [] mode = "first"    -> i = 1 /\ value[i] < 128
      [] mode = "tenth"    -> i % 10 = 0 /\ value[i] < 128
      [] mode = "nonascii" -> value[i] >= 128
      [] OTHER             -> FALSE

\* %HH for the byte b, in upper-case hex digits for the colons and every tenth
\* byte, in lower-case ones otherwise.
Escape(mode, b) ==
    LET digits == <<HexDigit(b \div 16), HexDigit(b % 16)>> IN
    <<37>> \o (IF mode \in {"colons", "tenth"} THEN Upper(digits) ELSE digits)

\* The value with the bytes of the mode replaced by their escapes.
EscapeValue(mode, value) ==
    Concat([i \in 1..Len(value) |->
               IF Escaped(mode, value, i) THEN Escape(mode, value[i]) ELSE <<value[i]>>])

\* The pairs as they are written, every value escaped in the mode or (first) the
\* value of the first pair alone.
Written(pairs, mode, first) ==
    [i \in 1..Len(pairs) |->
        [text |-> pairs[i].key \o <<61>>
                  \o (IF mode = "none" \/ (first /\ i > 1) THEN pairs[i].value
                      ELSE EscapeValue(mode, pairs[i].value))]]

\* The calls of parse on a magnet URI: on the URI of up to MaxPairs pairs, and on
\* a URI with escaped values, plain being the URI without the escapes.
ParseCalls ==
    {[fn |-> "parse", text |-> MagnetUri(pairs), pairs |-> pairs] :
        pairs \in SeqsUpTo(PairOptions, MaxPairs)}
    \cup {[fn |-> "parse", text |-> MagnetUri(Written(pairs, mode, first)),
           plain |-> MagnetUri(Written(pairs, "none", FALSE))] :
              pairs \in SeqsUpTo(PlainPairs, MaxPairs) \ {<<>>}, mode \in EscapeModes,
              first \in BOOLEAN}

\* parse(s) on a magnet URI.
CallParse ==
    /\ call = NoCall
    /\ \E c \in ParseCalls :
          /\ call' = c
          /\ ret' \in parse(c.text)
    /\ UNCHANGED exchange

\* The addresses of the BEP 42 examples, 0.0.0.0 and 255.255.255.255.
Addresses ==
    {<<124, 31, 75, 21>>, <<21, 75, 31, 124>>, <<65, 23, 51, 170>>, <<84, 124, 73, 14>>,
     <<43, 213, 53, 83>>, <<0, 0, 0, 0>>, <<255, 255, 255, 255>>}

\* Outcomes of rand_buff::<20>(): 20 bytes 00 or FF, with any of 00 07 F8 A5 as
\* out[2] and any of 00..07, FF, A9 and 56 as out[19].
Seeds ==
    {[Rep(fill, IdLen) EXCEPT ![3] = third, ![20] = last] :
        fill \in {0, 255}, third \in {0, 7, 248, 165}, last \in (0..7) \cup {255, 169, 86}}

\* node_id(&ip) with the random buffer it drew.
CallNodeId ==
    /\ call = NoCall
    /\ \E ip \in Addresses, seed \in Seeds :
          /\ call' = [fn |-> "node_id", ip |-> ip, seed |-> seed]
          /\ ret' = [st |-> "ok", id |-> node_id(ip, seed)]
    /\ UNCHANGED exchange

\* The caller takes the returned value.
TakeResult ==
    /\ call # NoCall
    /\ call' = NoCall
    /\ ret' = NoResult
    /\ UNCHANGED exchange

NextCall ==
    \/ CallEatStr
    \/ CallBytesFromHex
    \/ CallBytesFromHexOf
    \/ CallBytesFromBase32Of
    \/ CallBytesFromBase32
    \/ CallUriDecodeValue
    \/ CallParse
    \/ CallParseOther
    \/ CallHashFromStrOf
    \/ CallHashFromStr
    \/ CallNodeId
    \/ TakeResult

SpecCalls == Init /\ [][NextCall]_vars

\* ----------------------------------------- the walk of eat_dict and eat_list

\* A body holds at most MaxItems items before its tail.
MaxItems == 2

\* Items of a list: 1:a, i1e, le, de, and ie (no integer), x (no value), 5:ab (a
\* string longer than the bytes left).
ListItems ==
    {<<49,58,97>>, <<105,49,101>>, <<108,101>>, <<100,101>>,
     <<105,101>>, <<120>>, <<53,58,97,98>>}

\* Pairs of a dictionary: 1:ai1e, 1:b1:c, 1:cle, and 1:aie (no integer as value),
\* 1:ax (no value), i1e1:a (no string as key), 5:ab (a key longer than the bytes
\* left).
DictItems ==
    {<<49,58,97,105,49,101>>, <<49,58,98,49,58,99>>, <<49,58,99,108,101>>,
     <<49,58,97,105,101>>, <<49,58,97,120>>, <<105,49,101,49,58,97>>, <<53,58,97,98>>}

\* What follows the items: nothing, the terminating e, e and a further byte, an
\* integer cut short, an opened dictionary.
Tails == {<<>>, <<101>>, <<101,120>>, <<105,49>>, <<100>>}

\* The slices eat_list and eat_dict are called on.
IterBuffers(kind) ==
    {(IF kind = "Dict" THEN <<100>> ELSE <<108>>) \o Concat(items) \o tail :
        items \in SeqsUpTo(IF kind = "Dict" THEN DictItems ELSE ListItems, MaxItems),
        tail \in Tails}

\* eat_dict / eat_list up to its loop: the asserts, and the iterator over
\* &self.buffer[1..] (cursor 2), on which next() has not been called yet.
IterNew ==
    /\ call = NoCall
    /\ \E kind \in {"Dict", "List"} : \E buf \in IterBuffers(kind) :
          IF BufLen(buf, 1) < 2
          THEN /\ call' = [fn |-> "iter", kind |-> kind, buf |-> buf, cursor |-> 2,
                           before |-> 2, steps |-> 0, last |-> Panic]
               /\ ret' = Panic
          ELSE /\ call' = [fn |-> "iter", kind |-> kind, buf |-> buf, cursor |-> 2,
                           before |-> 2, steps |-> 0, last |-> [st |-> "new"]]
               /\ ret' = NoResult
    /\ UNCHANGED exchange

\* One iter.next(): of the loop `while iter.next().is_some() {}`, or a further
\* one on the iterator after it returned None.  before is the cursor the call
\* found, last is what it returned; a panic ends the walk.
IterNext ==
    /\ call.fn = "iter"
    /\ ret = NoResult
    /\ call.steps < MaxItems + 2
    /\ LET n == Bencode(call.buf)[Call(IF call.kind = "Dict" THEN "DictNext" ELSE "ListNext",
                                       call.cursor)]
       IN  /\ call' = [call EXCEPT !.before = call.cursor,
                                    !.cursor = IF n.st = "some" THEN n.cursor ELSE call.cursor,
                                    !.steps = call.steps + 1,
                                    !.last = n]
           /\ ret' = IF n.st = "panic" THEN Panic ELSE NoResult
    /\ UNCHANGED exchange

\* eat_dict / eat_list behind its loop: Ok with the rest behind the e when the
\* iterator stands at an e, UnknownError otherwise.
IterEnd ==
    /\ call.fn = "iter"
    /\ ret = NoResult
    /\ call.last.st = "none"
    /\ ret' = IF peek(call.buf, call.cursor) = 101
              THEN [st |-> "ok",
                    value |-> IF call.kind = "Dict" THEN ValDict(2) ELSE ValList(2),
                    rest |-> call.cursor + 1]
              ELSE Err("UnknownError")
    /\ UNCHANGED <<call, exchange>>

NextIter ==
    \/ IterNew
    \/ IterNext
    \/ IterEnd
    \/ TakeResult

SpecIter == Init /\ [][NextIter]_vars

\* The value of an ASCII decimal number (digits only), -1 for any other text.
Decimal(ds) ==
    IF ds # <<>> /\ \A i \in 1..Len(ds) : IsDigit(ds[i]) THEN DigitsVal(ds) ELSE -1

\* C12: eat_str on <len>:<bytes> returns the len bytes behind the colon and the
\* remainder behind them when at least len bytes follow the colon; it returns
\* Err(InvalidStringLength) when the text before the colon is not a decimal number
\* or when fewer than len bytes follow the colon.  (A length written with a
\* leading + is left open.)
C12_SliceOrInvalidLength ==
    call.fn = "eat_str" /\ FindByte(call.buffer, 1, 58) # 0 =>
        LET colon  == FindByte(call.buffer, 1, 58)
            prefix == SubSeq(call.buffer, 1, colon - 1)
            behind == Len(call.buffer) - colon
            len    == Decimal(prefix)
        IN  IF prefix # <<>> /\ prefix[1] = 43 THEN TRUE
            ELSE IF len = -1 \/ len > behind THEN ret = Err("InvalidStringLength")
            ELSE /\ ret.st = "ok"
                 /\ SubSeq(call.buffer, ret.from, ret.to)
                        = SubSeq(call.buffer, colon + 1, colon + len)
                 /\ SubSeq(call.buffer, ret.rest, Len(call.buffer))
                        = SubSeq(call.buffer, colon + len + 1, Len(call.buffer))


\* The value of a hex digit: 0..9 for 0-9, 10..15 for a-f and for A-F.
HexDigits == (48..57) \cup (97..102) \cup (65..70)
HexValue(c) ==
    IF c \in 48..57 THEN c - 48 ELSE IF c \in 97..102 THEN c - 87 ELSE c - 55

\* C13: bytes_from_hex<N>(s) returns InvalidHashLength whenever len(s) # 2N,
\* whatever the characters; InvalidHashCharacter when the length is right and some
\* character is outside 0-9, a-f, A-F; otherwise the N bytes whose i-th is
\* 16*v(s[2i]) + v(s[2i+1]), a letter having the same value in either case.
C13_HexLengthThenCharacters ==
    call.fn = "bytes_from_hex" =>
        LET s == call.text
            N == call.LEN
        IN  IF Len(s) # 2 * N THEN ret = Err("InvalidHashLength")
            ELSE IF \E i \in 1..Len(s) : s[i] \notin HexDigits
                 THEN ret = Err("InvalidHashCharacter")
            ELSE ret = OkBytes([i \in 1..N |->
                                  16 * HexValue(s[2 * i - 1]) + HexValue(s[2 * i])])

\* A two-byte hash written with a lower-case and an upper-case letter is decoded.
C13_Witness ==
    /\ call.fn = "bytes_from_hex"
    /\ call.LEN = 2
    /\ ret.st = "ok"
    /\ \E i, j \in 1..Len(call.text) : call.text[i] = 102 /\ call.text[j] = 70


\* The calls made on the text of an array x (call.of).
OfArray == "of" \in DOMAIN call

\* C14: decoding inverts encoding: bytes_from_hex of the hex text of an array x
\* returns x, and bytes_from_base32 of its padded RFC 4648 base32 text, in upper
\* or in lower case, returns x.
C14_DecodingInvertsEncoding ==
    OfArray => ret = OkBytes(call.of)

\* A five-byte array of differing bytes comes back from its lower-case base32 text.
C14_Witness ==
    /\ OfArray
    /\ call.fn = "bytes_from_base32"
    /\ Len(call.of) = 5
    /\ call.of[1] # call.of[2]
    /\ call.text[1] >= 97
    /\ ret = OkBytes(call.of)


\* C15: bytes_from_base32<N>(s) returns InvalidHashLength exactly when
\* len(s) # ceil(N/5)*8, the padding counted: a text of another length never gives
\* InvalidHashCharacter or a value, whatever its characters, and a text of that
\* length never gives InvalidHashLength.
C15_Base32LengthFirst ==
    call.fn = "bytes_from_base32" =>
        (ret = Err("InvalidHashLength")
            <=> Len(call.text) # ((call.LEN + 4) \div 5) * 8)

\* A text one character too long whose last character, @, is outside the alphabet.
C15_Witness ==
    /\ call.fn = "bytes_from_base32"
    /\ Len(call.text) = 9
    /\ call.text[9] = 64
    /\ ret = Err("InvalidHashLength")


\* The characters of the RFC 4648 alphabet: A-Z, a-z, 2-7.
Base32Alphabet == (65..90) \cup (97..122) \cup (50..55)

\* The data characters of a text for N bytes are its first ceil(8N/5).
DataChars(N) == (8 * N + 4) \div 5

\* C16: in bytes_from_base32 a character in the data region (index below
\* first_pad) is accepted only if it is in A-Z, a-z or 2-7: a text of the right
\* length with any other byte there, such as [ _ ` { ~ 0 1 8 9, gives
\* InvalidHashCharacter.
C16_DataCharactersOfTheAlphabet ==
    /\ call.fn = "bytes_from_base32"
    /\ Len(call.text) = ((call.LEN + 4) \div 5) * 8
    /\ \E i \in 1..DataChars(call.LEN) : call.text[i] \notin Base32Alphabet
    => ret = Err("InvalidHashCharacter")


\* The value of a character of the alphabet: 0..25 for a letter in either case,
\* 26..31 for 2-7.
Base32Value(c) == IF c \in 65..90 THEN c - 65 ELSE IF c \in 97..122 THEN c - 97 ELSE c - 24

\* Bit k (1 = first) of the 5-bit values of the characters of s, one after another.
ValueBit(s, k) == Bit(Base32Value(s[((k - 1) \div 5) + 1]), 4 - ((k - 1) % 5))

\* The byte made of the bits 8i-7 .. 8i of the values of s.
ValueByte(s, i) ==
    128 * ValueBit(s, 8 * i - 7) + 64 * ValueBit(s, 8 * i - 6) + 32 * ValueBit(s, 8 * i - 5)
    + 16 * ValueBit(s, 8 * i - 4) + 8 * ValueBit(s, 8 * i - 3) + 4 * ValueBit(s, 8 * i - 2)
    + 2 * ValueBit(s, 8 * i - 1) + ValueBit(s, 8 * i)

\* A text of the right length for N bytes whose data characters are of the alphabet.
OverTheAlphabet(s, N) ==
    /\ Len(s) = ((N + 4) \div 5) * 8
    /\ \A i \in 1..DataChars(N) : s[i] \in Base32Alphabet

\* C17: for a text of the right length over the alphabet, bytes_from_base32<N>
\* returns InvalidHashCharacter if a data bit behind the N-th byte is not zero or if
\* a character of the padding region is not =; otherwise it returns the N bytes
\* made of the first 8N bits of the 5-bit values, one after another.
C17_TailBitsAndPadding ==
    call.fn = "bytes_from_base32" /\ OverTheAlphabet(call.text, call.LEN) =>
        LET s == call.text
            N == call.LEN
        IN  IF \/ \E k \in (8 * N + 1)..(5 * DataChars(N)) : ValueBit(s, k) = 1
               \/ \E i \in (DataChars(N) + 1)..Len(s) : s[i] # 61
            THEN ret = Err("InvalidHashCharacter")
            ELSE ret = OkBytes([i \in 1..N |-> ValueByte(s, i)])

\* 77777=== for three bytes: the fifth character carries a bit behind the third
\* byte.
C17_Witness ==
    /\ call.fn = "bytes_from_base32"
    /\ call.LEN = 3
    /\ OverTheAlphabet(call.text, call.LEN)
    /\ call.text = <<55, 55, 55, 55, 55, 61, 61, 61>>
    /\ ret = Err("InvalidHashCharacter")


\* The % at index i of v is cut short: fewer than two bytes follow it before the
\* next % or the end of v.
CutShort(v, i) == i + 2 > Len(v) \/ v[i + 1] = 37 \/ v[i + 2] = 37

\* The % at index i of v is followed by two bytes that are hex digits.
IsEscape(v, i) ==
    /\ v[i] = 37
    /\ ~CutShort(v, i)
    /\ v[i + 1] \in HexDigits
    /\ v[i + 2] \in HexDigits

\* v read from the left: a + is a space, %HH is the byte HH, any other byte is
\* itself.
UriDecoded(v) ==
    LET dec[i \in 1..(Len(v) + 1)] ==
            IF i > Len(v) THEN <<>>
            ELSE IF v[i] = 43 THEN <<32>> \o dec[i + 1]
            ELSE IF IsEscape(v, i)
                 THEN <<16 * HexValue(v[i + 1]) + HexValue(v[i + 2])>>
                      \o (IF i + 3 > Len(v) THEN <<>> ELSE dec[i + 3])
            ELSE <<v[i]>> \o dec[i + 1]
    IN  dec[1]

\* What uri_decode_value returns for a value without a malformed escape.
Decodes(v) ==
    IF IsUtf8(UriDecoded(v))
    THEN ret = OkCow(\E i \in 1..Len(v) : v[i] \in {43, 37}, UriDecoded(v))
    ELSE ret = Err("NotImplemented")

\* The statement of C18 as it is written: InvalidUseOfReservedChar for a
\* reserved character or a % that is cut short, and every other value decodes.
C18_EveryOtherValueDecodes ==
    call.fn = "uri_decode_value" =>
        LET v == call.text IN
        IF HasReserved(v) \/ \E i \in 1..Len(v) : v[i] = 37 /\ CutShort(v, i)
        THEN ret = Err("InvalidUseOfReservedChar")
        ELSE Decodes(v)

\* C18: uri_decode_value(v) returns InvalidUseOfReservedChar if v contains #, ?
\* or &; otherwise the first % from the left that is cut short (fewer than two
\* bytes before the next % or the end) or whose two bytes are not hex digits
\* decides: InvalidUseOfReservedChar for the one, InvalidHashCharacter for the
\* other; otherwise v is returned with every + a space and every %HH the byte HH
\* (hex, either case), a + made by %2B staying a +, borrowed exactly when v holds
\* neither + nor %, and NotImplemented is returned when the bytes are no UTF-8.
C18_ValueDecoding ==
    call.fn = "uri_decode_value" =>
        LET v   == call.text
            bad == {i \in 1..Len(v) : v[i] = 37 /\ ~IsEscape(v, i)}
        IN  IF HasReserved(v) THEN ret = Err("InvalidUseOfReservedChar")
            ELSE IF bad # {}
                 THEN LET first == CHOOSE i \in bad : \A j \in bad : i <= j IN
                      ret = Err(IF CutShort(v, first) THEN "InvalidUseOfReservedChar"
                                ELSE "InvalidHashCharacter")
            ELSE Decodes(v)

\* %2b+ is returned as + and a space, owned.
C18_Witness ==
    /\ call.fn = "uri_decode_value"
    /\ call.text = <<37, 50, 98, 43>>
    /\ ret = OkCow(TRUE, <<43, 32>>)


\* A call of parse on the URI of the pairs call.pairs.
ParsedPairs == call.fn = "parse" /\ "pairs" \in DOMAIN call

\* The pairs of the call whose key is xt, xt.<k>, dn or dn.<k>.
KeyedPairs == {i \in 1..Len(call.pairs) : call.pairs[i].kind \in {"xt", "dn"}}

\* Every value of the URI is well-formed and no index has two xt or two dn keys.
WellFormedUri ==
    /\ \A i \in 1..Len(call.pairs) : call.pairs[i].good
    /\ \A i, j \in KeyedPairs :
          call.pairs[i].kind = call.pairs[j].kind /\ call.pairs[i].index = call.pairs[j].index
              => i = j

\* The file of index k: the hash of its xt key (INVALID without one) and the name
\* of its dn key (empty without one).
FileOf(k) ==
    LET xt == {i \in KeyedPairs : call.pairs[i].kind = "xt" /\ call.pairs[i].index = k}
        dn == {i \in KeyedPairs : call.pairs[i].kind = "dn" /\ call.pairs[i].index = k}
    IN  MagnetFile(IF xt = {} THEN INVALID ELSE call.pairs[CHOOSE i \in xt : TRUE].hash,
                   IF dn = {} THEN <<>> ELSE call.pairs[CHOOSE i \in dn : TRUE].name)

\* C19: parsing a magnet URI yields exactly one MagnetFile per distinct file index
\* among its xt, xt.<k>, dn and dn.<k> keys, and the file of an index carries the
\* hash of its xt key and the display name of its dn key, whatever the order of
\* the keys in the URI; a dn key without an xt key still yields a file.
C19_OneFilePerIndex ==
    ParsedPairs /\ WellFormedUri =>
        LET indexes == {call.pairs[i].index : i \in KeyedPairs} IN
        /\ ret.st = "ok"
        /\ Len(ret.files) = Cardinality(indexes)
        /\ \A k \in indexes : \E i \in 1..Len(ret.files) : ret.files[i] = FileOf(k)

\* The pairs of the call without those whose key is none of xt, xt.<k>, dn, dn.<k>.
WithoutOtherKeys == SelectSeq(call.pairs, LAMBDA p : p.kind # "other")

\* C20: the pairs of a magnet URI whose key is none of xt, xt.<k>, dn, dn.<k> are
\* ignored: with such pairs in the URI, whatever their values (a malformed %
\* escape, escape digits that are no hex, decoded bytes that are no UTF-8), parse
\* returns what it returns for the URI without them.
C20_OtherKeysIgnored ==
    ParsedPairs /\ (\E i \in 1..Len(call.pairs) : call.pairs[i].kind = "other") =>
        ret \in parse(MagnetUri(WithoutOtherKeys))


\* The text s is n characters that are all in the set chars.
IsTextOf(s, n, chars) == Len(s) = n /\ \A i \in 1..n : s[i] \in chars

\* The text s has one of the four forms: urn:sha1: and 32 base32 characters,
\* urn:md5: and 32 hex digits, urn:btih: and 40 hex digits or 32 base32 characters.
HasUrnForm(s) ==
    \/ starts_with(s, T_urn_sha1) /\ IsTextOf(SliceFrom(s, 9), 32, Base32Alphabet)
    \/ starts_with(s, T_urn_md5) /\ IsTextOf(SliceFrom(s, 8), 32, HexDigits)
    \/ starts_with(s, T_urn_btih) /\ IsTextOf(SliceFrom(s, 9), 40, HexDigits)
    \/ starts_with(s, T_urn_btih) /\ IsTextOf(SliceFrom(s, 9), 32, Base32Alphabet)

\* The variant of a URN's prefix.
TagOf(s) ==
    IF starts_with(s, T_urn_sha1) THEN "SHA1"
    ELSE IF starts_with(s, T_urn_md5) THEN "MD5"
    ELSE IF starts_with(s, T_urn_btih) THEN "BTIH"
    ELSE "none"

\* The URN of a hash in one of the four forms gives that hash in the variant of
\* its prefix.
UrnOfHashDecodes ==
    call.fn = "MagnetHash::from_str" /\ "hash" \in DOMAIN call =>
        ret = [st |-> "ok", hash |-> call.hash]

\* The statement of C21 as it is written: a text of one of the four forms gives a
\* hash of the variant of its prefix, and every other text gives
\* UnknownHashFunction.
C21_EveryOtherTextUnknown ==
    /\ UrnOfHashDecodes
    /\ call.fn = "MagnetHash::from_str" =>
          IF HasUrnForm(call.text)
          THEN ret.st = "ok" /\ ret.hash.tag = TagOf(call.text)
          ELSE ret = Err("UnknownHashFunction")

\* C21: MagnetHash::from_str dispatches on the URN prefix: urn:sha1: and the 32
\* base32 characters of a hash give SHA1 of its 20 bytes, urn:md5: and 32 hex
\* digits MD5 of 16 bytes, urn:btih: and 40 hex digits or 32 base32 characters
\* BTIH of 20 bytes; a text with none of the three prefixes gives
\* UnknownHashFunction; a text with one of them never does: what is behind the
\* prefix gives a hash of that variant, or InvalidHashLength when it has not the
\* length of the form (32, 32, 40 or 32 characters), or InvalidHashCharacter.
C21_UrnDispatch ==
    /\ UrnOfHashDecodes
    /\ call.fn = "MagnetHash::from_str" =>
          LET s    == call.text
              rest == Len(s) - (IF TagOf(s) = "MD5" THEN 8 ELSE 9)
              fits == IF TagOf(s) = "BTIH" THEN rest \in {32, 40} ELSE rest = 32
          IN  IF TagOf(s) = "none" THEN ret = Err("UnknownHashFunction")
              ELSE IF ~fits THEN ret = Err("InvalidHashLength")
              ELSE \/ ret.st = "ok" /\ ret.hash.tag = TagOf(s)
                                   /\ Len(ret.hash.bytes) = (IF TagOf(s) = "MD5" THEN 16 ELSE 20)
                   \/ ret = Err("InvalidHashCharacter")

\* urn:btih: and the 40 upper-case hex digits of the id abcdefghij0123456789.
C21_Witness ==
    /\ call.fn = "MagnetHash::from_str"
    /\ call.text = T_urn_btih \o Upper(Hex(IdA))
    /\ ret = [st |-> "ok", hash |-> MagnetHash("BTIH", IdA)]


\* A call of parse on a URI that is call.plain with characters of its values
\* replaced by their escapes.
EscapedUri == call.fn = "parse" /\ "plain" \in DOMAIN call

\* C22: percent-encoding does not change the meaning of a magnet URI: for a URI
\* whose values hold no + % # ? &, replacing characters of its values by their
\* %HH escapes, in upper or lower case, gives a URI for which parse returns what
\* it returns for the URI without them: the same error, or the same files (an
\* unordered collection: the order of the files is that of a HashMap).
C22_EscapesKeepTheMeaning ==
    EscapedUri => ret \in parse(call.plain)

\* Two files, of which one has a name, from a URI with escapes.
C22_Witness ==
    /\ EscapedUri
    /\ call.text # call.plain
    /\ ret.st = "ok"
    /\ Len(ret.files) = 2
    /\ \E i \in 1..2 : ret.files[i].display_name # <<>>

\* The address as node_id hashes it: ip AND 03 0f 3f ff, with the low three bits
\* of the seed's last byte above the two bits kept of the first byte.
Masked(ip, seed) ==
    <<(ip[1] % 4) + 32 * (seed[20] % 8), ip[2] % 16, ip[3] % 64, ip[4]>>

\* The first three bytes BEP 42 gives for its example addresses and random
\* numbers, the low three bits of the third left out.
Bep42 ==
    {[ip |-> <<124, 31, 75, 21>>, r |-> 1, id |-> <<95, 191, 184>>],
     [ip |-> <<21, 75, 31, 124>>, r |-> 6, id |-> <<90, 60, 232>>],
     [ip |-> <<65, 23, 51, 170>>, r |-> 6, id |-> <<165, 212, 48>>],
     [ip |-> <<84, 124, 73, 14>>, r |-> 1, id |-> <<27, 3, 32>>],
     [ip |-> <<43, 213, 53, 83>>, r |-> 2, id |-> <<229, 111, 104>>]}

\* C23: node_id returns the seed with bytes 0, 1 and the top five bits of byte 2
\* replaced by bits 31..11 of CRC32C(masked); bytes 3..19 and the low three bits
\* of byte 2 are the seed's.  For the addresses and random numbers of BEP 42 the
\* three bytes are the ones it lists (5f bf b8 for 124.31.75.21 and r = 1), and
\* the CRC of the text 123456789 is the check value E3069283 of CRC-32C.
C23_NodeIdFromAddress ==
    call.fn = "node_id" =>
        LET out == ret.id
            crc == crc32c(Masked(call.ip, call.seed))
        IN  /\ ret.st = "ok"
            /\ Len(out) = 20
            /\ \A i \in 4..20 : out[i] = call.seed[i]
            /\ out[3] % 8 = call.seed[3] % 8
            /\ (out[1] * 8192) + (out[2] * 32) + (out[3] \div 8)
                   = (crc.hi * 32) + (crc.lo \div 2048)
            /\ \A e \in Bep42 :
                   call.ip = e.ip /\ call.seed[20] % 8 = e.r
                      => <<out[1], out[2], out[3] - (out[3] % 8)>> = e.id
            /\ crc32c(<<49, 50, 51, 52, 53, 54, 55, 56, 57>>) = U32(58118, 37507)

\* node_id(124.31.75.21) with a seed of bytes FF whose out[2] is 07 and whose
\* out[19] is A9 (r = 1) has returned 5f bf bf and 17 bytes of the seed.
C23_Witness ==
    /\ call.fn = "node_id"
    /\ call.ip = <<124, 31, 75, 21>>
    /\ call.seed = [Rep(255, 20) EXCEPT ![3] = 7, ![20] = 169]
    /\ ret.id = <<95, 191, 191>> \o Rep(255, 16) \o <<169>>

\* C24: for every Query (Ping, FindNode, GetPeers), every Response (Ping,
\* FindNode with any nodes bytes, GetPeers with any token bytes) and every Error
\* of kind Generic, Server, Protocol or MethodUnknown with any UTF-8 message, and
\* any transaction id (the empty one, `e` and `e:` among them),
\* from_bencode(to_bencode(m)) is Ok(m).
C24_RoundTripOfTheTestedVariants ==
    (pc = "decoded" /\ source = "encoder" /\ msg.message.variant # "UnknownError")
        => result = Ok(msg)

\* A GetPeers response whose token is the 16 bytes e:1:de0:i-\xFFle... and whose
\* transaction id is e: was encoded and decoded, and the result is that message.
C24_Witness ==
    /\ pc = "decoded"
    /\ source = "encoder"
    /\ msg = KRPCMessage(<<101, 58>>, ResponseGetPeers(IdB, Filler))
    /\ result = Ok(msg)

\* The iterator of a walk, after at least one call of next().
Walking == call.fn = "iter" /\ call.steps > 0

\* eat_dict or eat_list, as one function, on the slice of the walk.
Whole ==
    Bencode(call.buf)[Call(IF call.kind = "Dict" THEN "eat_dict" ELSE "eat_list", 1)]

\* C25: after an iterator over a well-formed body has been driven until next()
\* returned None, its cursor points just past the terminating e of the
\* dictionary or list.
C25_ExhaustedCursorPastTheEnd ==
    (Walking /\ Whole.st = "ok" /\ call.last.st = "none")
        => /\ call.buf[call.cursor - 1] = 101
           /\ call.cursor = Whole.rest

\* How the element at the cursor the last next() found decodes: "end" at the end
\* of the slice, "e" at an e, else "ok", "err" or "panic" (a key and its value for
\* a dictionary, a value for a list).
ElementAt ==
    LET rec == Bencode(call.buf)
        c == peek(call.buf, call.before)
        k == eat_str(call.buf, call.before)
    IN  IF c = -1 THEN "end"
        ELSE IF c = 101 THEN "e"
        ELSE IF call.kind = "List" THEN rec[Call("eat_any", call.before)].st
        ELSE IF k.st # "ok" THEN k.st
        ELSE rec[Call("eat_any", k.rest)].st

\* C26: when the iterator meets an element that fails to decode, next() returns
\* None and no item, the cursor stays where it was before that element (so every
\* later next() meets the same element and returns None too), and eat_dict /
\* eat_list on that body return UnknownError; they do so too on a body that ends
\* before its e.
C26_FailingElementEndsTheSequence ==
    /\ (Walking /\ ElementAt \in {"err", "panic"})
           => /\ call.last = [st |-> "none"]
              /\ call.cursor = call.before
              /\ Whole = Err("UnknownError")
    /\ (Walking /\ ElementAt = "end")
           => /\ call.last = [st |-> "none"]
              /\ Whole = Err("UnknownError")
    /\ (call.fn = "iter" /\ Len(call.buf) = 1) => Whole = Err("UnknownError")

\* C27: the id of a decoded Query is the id entry of the a dictionary of the
\* datagram and the id of a decoded Response is the id entry of its r dictionary;
\* an r dictionary in a y = q datagram, or an a dictionary in a y = r datagram,
\* never supplies or overwrites it.
C27_FieldsOfTheOwnDictionary ==
    (Decoded /\ result.st = "ok" /\ result.msg.message.type \in {"Query", "Response"})
        => LET own == Sub(dgram, IF result.msg.message.type = "Query" THEN K_a ELSE K_r)
           IN  /\ IsId(own, K_id)
               /\ result.msg.message.id = Get(own, K_id).b

\* A decoded datagram that is a dictionary followed by further bytes, and the
\* result of the dictionary alone.
Padded == pc = "decoded" /\ source = "padded"
Unpadded == from_bencode(Render(BDict(dgram)))

\* C28: a datagram made of a valid KRPC dictionary followed by one or more bytes
\* is rejected with UnknownError; no message is produced.
C28_TrailingBytesRejected ==
    (Padded /\ Unpadded.st = "ok") => result = Err("UnknownError")

\* The ping of the tests followed by an empty dictionary was decoded, and the
\* result is UnknownError.
C28_Witness ==
    /\ Padded
    /\ wire = PingDatagram \o <<100, 101>>
    /\ Unpadded = Ok(KRPCMessage(<<97, 97>>, QueryPing(IdA)))
    /\ result = Err("UnknownError")

=============================================================================
